---------------------------- MODULE Spec2Model ----------------------------
(***************************************************************************)
(* State-machine model of the systematic-review auditor:                   *)
(*   - the graph orchestrator and the sequential orchestrator              *)
(*     (app/langraph_orchestrator.py, app/orchestrator.py),                *)
(*   - the log broadcasting service (app/logstream.py),                    *)
(*   - the two SSE generators and the upload handlers (app/main.py).       *)
(* Each part has its own specification over the shared variables; the      *)
(* parts a specification does not drive stay in their idle state.          *)
(***************************************************************************)
EXTENDS Integers, Sequences, FiniteSets, TLC

VARIABLES
    \* ---- review (orchestrators) ----
    env,        \* the process environment of one review call
    ms,         \* the manuscript under review
    entry,      \* which entry point was called
    use_llm,    \* the use_llm parameter of the call (enhanced_review, /review/enhanced)
    rpc,        \* position of the review call
    cur,        \* index (1..4) of the agent being run
    gstate,     \* MultiAgentState of the graph run
    sstate,     \* locals of simple_review / enhanced_review
    result,     \* the ReviewResult returned to the caller
    trace,      \* agent starts and ends, in order
    llmFailed,  \* (orchestrator, agent) whose LLM call raised
    llmCalled,  \* (orchestrator, agent) that invoked the LLM client
    steps,      \* graph transitions taken
    \* ---- log broadcasting ----
    listeners,  \* _listeners: the registered callbacks
    queue,      \* queue of each listener
    lstate,     \* life cycle of each listener
    epc,        \* position of each emitting thread inside Handler.handle / emit
    emsg,       \* the line an emitting thread is broadcasting
    esnap,      \* the callbacks of its snapshot not yet called
    hlock,      \* owner of the handler's I/O lock (0: free)
    logCount,   \* lines emitted so far (the next line is logCount + 1)
    stable,     \* history: listeners registered since the latest emission began
    emitted,    \* history: the line of the latest emission once finished (0: not yet)
    \* ---- SSE generators ----
    spc,        \* position of each stream's generate_events
    endpoint,   \* "start" (/review/start/stream) or "upload" (/review/upload/stream)
    seq,        \* the generator's seq counter
    evn,        \* orchestration events received so far
    held,       \* the log line taken from the queue, about to be yielded
    out,        \* SSE events yielded so far
    how,        \* how the generator is ending: "running", "ok", "error", "closed"
    late,       \* history: lines that were queued when an orchestration event was yielded
    \* ---- upload handlers ----
    upc,        \* position of the upload handler
    ureq,       \* the upload request
    tmp,        \* temporary file: "none", "exists", "deleted"
    ustatus,    \* HTTP status of the response (0: none yet)
    uexc,       \* exception in flight in the handler
    ufail,      \* what went wrong, for the record
    uman,       \* the manuscript as the ingestion produced it
    uresp,      \* the body of the response
    \* ---- agents called on their own ----
    apc,               \* the agent function to call ("meta", "pico") or called ("meta_done", "pico_done")
    included_studies,  \* manuscript.included_studies: per study its list of OutcomeEffects
    question,          \* manuscript.question
    meta_out,          \* what EnhancedMetaAnalysis.run returned or that it raised
    pico_issues,       \* what pico_parser.run returned
    emanuscript,       \* the manuscript handed to EnhancedPICOParser.run, as it is now
    ecfg,              \* use_llm / fallback_to_rules of the EnhancedPICOParser
    eout,              \* what EnhancedPICOParser.run returned, with the inputs of the call
    xtext,             \* the text handed to extract_pico_elements: what its patterns find
    xout,              \* what extract_pico_elements returned
    \* ---- services ----
    gpc,        \* position of each thread inside the accessor of each singleton
    instance,   \* the module global of each singleton (0: None)
    built,      \* how many instances of each singleton were constructed
    fresh,      \* the instance a thread has constructed and not yet assigned
    obtained,   \* the instance the accessor returned to each thread (0: none yet)
    running_loop, \* an event loop is running on the thread calling generate_completion_sync
    cpc,        \* position of that caller
    wpc,        \* state of the worker thread running the async completion
    clock,      \* seconds since the caller started to wait for the future
    pending,    \* what future.result produced, carried through the exit of the with block
    cout,       \* what generate_completion_sync gave back to its caller
    lpc,        \* position inside LLMEnvironment.__init__
    environ,    \* os.environ: the raw value of each recognised variable ("None": unset)
    environ0,   \* os.environ when the construction began
    cfile,      \* the config file: whether it exists and the raw value it gives each key
    settings,   \* self.settings of the LLMEnvironment under construction
    nenv        \* how many LLMEnvironment objects the process has constructed so far

reviewVars == <<env, ms, entry, use_llm, rpc, cur, gstate, sstate, result, trace, llmFailed, llmCalled, steps>>
logVars    == <<listeners, queue, lstate, epc, emsg, esnap, hlock, logCount, stable, emitted>>
streamVars == <<spc, endpoint, seq, evn, held, out, how, late>>
uploadVars == <<upc, ureq, tmp, ustatus, uexc, ufail, uman, uresp>>
agentVars  == <<apc, included_studies, question, meta_out, pico_issues, emanuscript, ecfg, eout,
               xtext, xout>>
singletonVars == <<gpc, instance, built, fresh, obtained>>
syncVars   == <<running_loop, cpc, wpc, clock, pending, cout>>
configVars == <<lpc, environ, environ0, cfile, settings, nenv>>
svcVars    == <<singletonVars, syncVars, configVars>>
vars == <<env, ms, entry, use_llm, rpc, cur, gstate, sstate, result, trace, llmFailed, llmCalled, steps,
          listeners, queue, lstate, epc, emsg, esnap, hlock, logCount, stable, emitted,
          spc, endpoint, seq, evn, held, out, how, late,
          upc, ureq, tmp, ustatus, uexc, ufail, uman, uresp,
          apc, included_studies, question, meta_out, pico_issues, emanuscript, ecfg, eout,
          xtext, xout,
          gpc, instance, built, fresh, obtained,
          running_loop, cpc, wpc, clock, pending, cout,
          lpc, environ, environ0, cfile, settings, nenv>>

-----------------------------------------------------------------------------
(* Bounds of the model *)
MaxStudies == 2
MaxListeners == 2
MaxEmitters == 2
MaxLogs == 2
MaxEvents == 2
MaxStreams == 1

Range(s) == {s[i] : i \in DOMAIN s}
Count(s, x) == Cardinality({i \in DOMAIN s : s[i] = x})

-----------------------------------------------------------------------------
(***************************************************************************)
(* REVIEW: app/langraph_orchestrator.py and app/orchestrator.py            *)
(***************************************************************************)

\* all_agents of supervisor_agent, in its order
all_agents == <<"pico_parser", "prisma_checker", "rob_assessor", "meta_analysis">>

\* the agent= label each orchestrator writes into its AnalysisMethod
AgentLabel == <<"PICO-Parser", "PRISMA-Checker", "Risk-of-Bias", "Meta-Analysis">>

\* AnalysisMethod(agent, method, fallback_reason); llm_model/llm_provider are
\* carried along with method and are not modelled separately
AnalysisMethod(a, m, r) == [agent |-> a, method |-> m, fallback_reason |-> r]

\* llm_config of the state: None, or the dict built by the supervisor
NoConfig == [set |-> FALSE, available |-> FALSE]

initial_state == [issues |-> <<>>, meta_results |-> <<>>, analysis_methods |-> <<>>,
                  llm_config |-> NoConfig, completed_agents |-> <<>>]

\* outcome of one LLM client call: under env.llmRaise every call raises
LLMOutcomes(e) == IF e.llmRaise THEN {"raise"} ELSE {"ok", "raise"}

\* get_llm_client(): returns the client or raises (create_llm_client fails)
ClientRaises(e) == ~e.clientOk

\* _fixed_effect / _random_effect divide by e.var: an outcome pooled from
\* at least two effects, one of them with var = 0, raises ZeroDivisionError
StatsRaise(m) == m.nStudies >= 2 /\ m.zeroVar

\* the MetaResults of EnhancedMetaAnalysis.run: fixed and random per pooled outcome
MetaResultsOf(m) == IF m.nStudies >= 2 THEN <<"fixed", "random">> ELSE <<>>

\* pico_parser.run: the rule-based parser, PICO-001 when elements are missing
pico_parser_run(m) == IF m.hasQuestion THEN <<>> ELSE <<"PICO-001">>

\* EnhancedPICOParser._extract_available_text is non-empty
HasText(m) == m.hasText \/ m.hasQuestion

\* EnhancedPICOParser.run with a constructed parser; r is the LLM call's outcome.
\* Never raises: the LLM call sits in try/except.
EnhancedPICOParser_run(m, useLlm, fallback_to_rules, r) ==
    LET attempt == (~m.hasQuestion \/ useLlm) /\ HasText(m) /\ useLlm
        fb == IF fallback_to_rules THEN pico_parser_run(m) ELSE <<>>
    IN  IF attempt /\ r = "ok"
          THEN [issues |-> <<"PICO-LLM-001">>, ms |-> [m EXCEPT !.hasQuestion = TRUE],
                called |-> TRUE, failed |-> FALSE]
        ELSE IF attempt
          THEN [issues |-> fb \o <<"PICO-LLM-ERROR-001">>, ms |-> m,
                called |-> TRUE, failed |-> TRUE]
        ELSE IF ~m.hasQuestion \/ useLlm
          THEN [issues |-> fb, ms |-> m, called |-> FALSE, failed |-> FALSE]
        ELSE [issues |-> <<>>, ms |-> m, called |-> FALSE, failed |-> FALSE]

\* EnhancedPRISMAChecker.run: rule checks first, then the LLM analysis, whose
\* own try/except swallows a raising call
EnhancedPRISMAChecker_run(m, useLlm, r) ==
    [issues |-> <<"PRISMA-RULES">> \o (IF useLlm /\ r = "ok" THEN <<"PRISMA-LLM">> ELSE <<>>),
     called |-> useLlm, failed |-> useLlm /\ r = "raise"]

\* RoBAssessor(use_llm=True).run: one LLM call per study, each in try/except
RoBAssessor_run(m, r) ==
    [issues |-> IF m.nStudies = 0 THEN <<>>
                ELSE IF r = "ok" THEN <<"ROB-LLM">> ELSE <<"ROB-LLM-ERROR", "ROB-RULES">>,
     called |-> m.nStudies > 0, failed |-> m.nStudies > 0 /\ r = "raise"]

\* EnhancedMetaAnalysis.run: the statistics may raise; the LLM interpretation
\* of each pooled outcome sits in try/except
EnhancedMetaAnalysis_run(m, useLlm, r) ==
    [raised |-> StatsRaise(m), meta |-> MetaResultsOf(m),
     called |-> useLlm /\ m.nStudies >= 2 /\ ~StatsRaise(m),
     failed |-> useLlm /\ m.nStudies >= 2 /\ ~StatsRaise(m) /\ r = "raise"]


\* prisma_checker.run: run_enhanced_prisma_analysis(manuscript, use_llm=True);
\* the constructor calls get_llm_client()
prisma_checker_run(m, e, r) ==
    LET x == EnhancedPRISMAChecker_run(m, TRUE, r)
    IN  IF ClientRaises(e)
          THEN [raised |-> TRUE, issues |-> <<>>, called |-> FALSE, failed |-> FALSE]
          ELSE [raised |-> FALSE, issues |-> x.issues, called |-> x.called, failed |-> x.failed]

\* meta_analysis.run: run_enhanced_meta_analysis(manuscript, use_llm=True)
meta_analysis_run(m, e, r) ==
    LET x == EnhancedMetaAnalysis_run(m, TRUE, r)
    IN  IF ClientRaises(e)
          THEN [raised |-> TRUE, meta |-> <<>>, called |-> FALSE, failed |-> FALSE]
          ELSE x

\* ---- graph nodes --------------------------------------------------------

\* a node update that records its agent twice
MarkCompletedTwice(completed, name) == completed \o <<name, name>>

\* the update every node ends with:
\* state["completed_agents"] = state.get("completed_agents", []) + [name]
MarkCompleted(completed, name) == Append(completed, name)

\* a routing that picks the last agent not yet completed
NextAgentLast(completed) ==
    IF \A i \in 1..4 : all_agents[i] \in Range(completed) THEN 0
    ELSE CHOOSE i \in 1..4 :
            /\ all_agents[i] \notin Range(completed)
            /\ \A j \in (i + 1)..4 : all_agents[j] \in Range(completed)

\* the for-loop of supervisor_agent: the first agent of all_agents not yet
\* completed (0: none)
NextAgent(completed) ==
    IF \A i \in 1..4 : all_agents[i] \in Range(completed) THEN 0
    ELSE CHOOSE i \in 1..4 :
            /\ all_agents[i] \notin Range(completed)
            /\ \A j \in 1..(i - 1) : all_agents[j] \in Range(completed)

\* supervisor_agent: resolves llm_config when the state has none (a raising
\* get_llm_environment leaves the state's entry None), then routes
supervisor_agent(st, e) ==
    LET cfg == IF st.llm_config.set THEN st.llm_config
               ELSE IF e.envOk THEN [set |-> TRUE, available |-> e.apiKey]
               ELSE NoConfig
        st2 == [st EXCEPT !.llm_config = cfg]
    IN  IF Range(st.completed_agents) = Range(all_agents)
          THEN [st |-> st2, goto |-> 0]
          ELSE [st |-> st2, goto |-> NextAgent(st.completed_agents)]

\* pico_parser_agent
pico_parser_agent(st, m, e, r) ==
    LET cfg == st.llm_config
        tryFails == ~e.agentsOk \/ ~cfg.set \/ (cfg.available /\ ClientRaises(e))
        x == EnhancedPICOParser_run(m, cfg.available, TRUE, r)
        am == IF tryFails THEN AnalysisMethod("PICO-Parser", "rule-based", "None")
              ELSE AnalysisMethod("PICO-Parser",
                        IF cfg.available THEN "llm-enhanced" ELSE "rule-based", "None")
    IN  [raised |-> FALSE,
         st |-> [st EXCEPT
                   !.issues = @ \o (IF tryFails THEN pico_parser_run(m) ELSE x.issues),
                   !.analysis_methods = Append(@, am),
                   !.completed_agents = MarkCompleted(@, "pico_parser")],
         ms |-> IF tryFails THEN m ELSE x.ms,
         called |-> ~tryFails /\ x.called,
         failed |-> ~tryFails /\ x.failed]

\* prisma_checker_agent
prisma_checker_agent(st, m, e, r) ==
    LET cfg == st.llm_config
        tryFails == ~cfg.set \/ (cfg.available /\ ClientRaises(e))
        x == EnhancedPRISMAChecker_run(m, cfg.available, r)
        b == prisma_checker_run(m, e, r)
        am == IF tryFails THEN AnalysisMethod("PRISMA-Checker", "rule-based", "None")
              ELSE AnalysisMethod("PRISMA-Checker",
                        IF cfg.available THEN "llm-enhanced" ELSE "rule-based", "None")
    IN  [raised |-> tryFails /\ b.raised,
         st |-> [st EXCEPT
                   !.issues = @ \o (IF tryFails THEN b.issues ELSE x.issues),
                   !.analysis_methods = Append(@, am),
                   !.completed_agents = MarkCompleted(@, "prisma_checker")],
         ms |-> m,
         called |-> IF tryFails THEN b.called ELSE x.called,
         failed |-> IF tryFails THEN b.failed ELSE x.failed]

\* rob_assessor_agent: RoBAssessor(use_llm=True) whatever llm_config says; the
\* AnalysisMethod is built inside the try from llm_config.get(...), after
\* issues.extend; the except branch runs nothing and records the fallback
rob_assessor_agent(st, m, e, r) ==
    LET cfg == st.llm_config
        ran == e.agentsOk /\ ~ClientRaises(e)
        tryFails == ~ran \/ ~cfg.set
        x == RoBAssessor_run(m, r)
        am == IF tryFails
                THEN AnalysisMethod("Risk-of-Bias", "rule-based", "LLM authentication failed")
                ELSE AnalysisMethod("Risk-of-Bias", "llm-enhanced", "None")
    IN  [raised |-> FALSE,
         st |-> [st EXCEPT
                   !.issues = @ \o (IF ran THEN x.issues ELSE <<>>),
                   !.analysis_methods = Append(@, am),
                   !.completed_agents = MarkCompleted(@, "rob_assessor")],
         ms |-> m,
         called |-> ran /\ x.called,
         failed |-> ran /\ x.failed]

\* meta_analysis_agent
meta_analysis_agent(st, m, e, r) ==
    LET cfg == st.llm_config
        x == EnhancedMetaAnalysis_run(m, cfg.available, r)
        tryFails == ~cfg.set \/ (cfg.available /\ ClientRaises(e)) \/ x.raised
        b == meta_analysis_run(m, e, r)
        am == IF tryFails THEN AnalysisMethod("Meta-Analysis", "rule-based", "None")
              ELSE AnalysisMethod("Meta-Analysis",
                        IF cfg.available THEN "llm-enhanced" ELSE "rule-based", "None")
    IN  [raised |-> tryFails /\ b.raised,
         st |-> [st EXCEPT
                   !.meta_results = @ \o (IF tryFails THEN b.meta ELSE x.meta),
                   !.analysis_methods = Append(@, am),
                   !.completed_agents = MarkCompleted(@, "meta_analysis")],
         ms |-> m,
         called |-> IF tryFails THEN b.called ELSE x.called,
         failed |-> IF tryFails THEN b.failed ELSE x.failed]

\* agent_node_map: the node the supervisor's goto names
Node(i, st, m, e, r) ==
    CASE i = 1 -> pico_parser_agent(st, m, e, r)
      [] i = 2 -> prisma_checker_agent(st, m, e, r)
      [] i = 3 -> rob_assessor_agent(st, m, e, r)
      [] OTHER -> meta_analysis_agent(st, m, e, r)


\* recursion_limit set on the compiled graph by build_multi_agent_graph
recursion_limit == 50

\* ---- sequential orchestrator ----------------------------------------------

\* whether simple_review / enhanced_review take the LLM branch of PICO and RoB:
\* "if LLM_AGENTS_AVAILABLE:" resp. "if LLM_AGENTS_AVAILABLE and use_llm:"
SeqLlmBranch(kind, e, u) == e.agentsOk /\ (kind = "simple" \/ u)

\* whether the agent is invoked at all: the else branch of Risk of Bias runs
\* no assessor
SeqRuns(kind, i, e, u) == i # 3 \/ SeqLlmBranch(kind, e, u)

\* what the else branch of Risk of Bias appends to analysis_methods:
\* simple_review nothing, enhanced_review a rule-based entry with its reason
SeqSkipMethods(kind, u) ==
    IF kind = "simple" THEN <<>>
    ELSE <<AnalysisMethod("Risk-of-Bias", "rule-based",
              IF ~u THEN "LLM disabled by parameter" ELSE "LLM agents not available")>>

\* the PICO block of simple_review / enhanced_review
SeqPico(kind, st, m, e, u, r) ==
    LET llm == SeqLlmBranch(kind, e, u)
        tryFails == ClientRaises(e)
        x == EnhancedPICOParser_run(m, TRUE, TRUE, r)
        am == IF llm /\ ~tryFails THEN AnalysisMethod("PICO-Parser", "llm-enhanced", "None")
              ELSE IF llm THEN AnalysisMethod("PICO-Parser", "rule-based", "LLM authentication failed")
              ELSE AnalysisMethod("PICO-Parser", "rule-based",
                      IF kind = "enhanced" /\ ~u THEN "LLM disabled by parameter" ELSE "None")
        enhanced == llm /\ ~tryFails
    IN  [raised |-> FALSE,
         st |-> [st EXCEPT !.issues = @ \o (IF enhanced THEN x.issues ELSE pico_parser_run(m)),
                           !.analysis_methods = Append(@, am)],
         ms |-> IF enhanced THEN x.ms ELSE m,
         called |-> enhanced /\ x.called, failed |-> enhanced /\ x.failed]

\* the PRISMA block: prisma_checker.run outside any try
SeqPrisma(kind, st, m, e, u, r) ==
    LET b == prisma_checker_run(m, e, r)
    IN  [raised |-> b.raised,
         st |-> [st EXCEPT !.issues = @ \o b.issues,
                           !.analysis_methods =
                               Append(@, AnalysisMethod("PRISMA-Checker", "rule-based", "None"))],
         ms |-> m, called |-> b.called, failed |-> b.failed]

\* the Risk-of-Bias block, LLM branch
SeqRob(kind, st, m, e, u, r) ==
    LET tryFails == ClientRaises(e)
        x == RoBAssessor_run(m, r)
        am == IF tryFails
                THEN AnalysisMethod("Risk-of-Bias", "rule-based", "LLM authentication failed")
                ELSE AnalysisMethod("Risk-of-Bias", "llm-enhanced", "None")
    IN  [raised |-> FALSE,
         st |-> [st EXCEPT !.issues = @ \o (IF tryFails THEN <<>> ELSE x.issues),
                           !.analysis_methods = Append(@, am)],
         ms |-> m, called |-> ~tryFails /\ x.called, failed |-> ~tryFails /\ x.failed]

\* the Meta-Analysis block: meta_analysis.run outside any try
SeqMeta(kind, st, m, e, u, r) ==
    LET b == meta_analysis_run(m, e, r)
    IN  [raised |-> b.raised,
         st |-> [st EXCEPT !.meta = @ \o b.meta,
                           !.analysis_methods =
                               Append(@, AnalysisMethod("Meta-Analysis", "rule-based", "None"))],
         ms |-> m, called |-> b.called, failed |-> b.failed]

\* the i-th block of the sequential orchestrators, in source order
SeqAgent(kind, i, st, m, e, u, r) ==
    CASE i = 1 -> SeqPico(kind, st, m, e, u, r)
      [] i = 2 -> SeqPrisma(kind, st, m, e, u, r)
      [] i = 3 -> SeqRob(kind, st, m, e, u, r)
      [] OTHER -> SeqMeta(kind, st, m, e, u, r)

\* the block that follows block i in simple_review / enhanced_review (5: return)
SeqNext(i) == i + 1

seq_locals == [issues |-> <<>>, analysis_methods |-> <<>>, meta |-> <<>>]
NoResult == [via |-> "none", issues |-> <<>>, meta |-> <<>>, analysis_methods |-> <<>>]

\* which sequential function is running
SeqKind == IF entry = "enhanced" THEN "enhanced" ELSE "simple"

Ev(kind, i, orch) == [ev |-> kind, agent |-> i, orch |-> orch]


\* ---- the review call as a state machine -----------------------------------

Environments ==
    [envOk : BOOLEAN, apiKey : BOOLEAN, clientOk : BOOLEAN, agentsOk : BOOLEAN, llmRaise : BOOLEAN]

Manuscripts ==
    {m \in [hasQuestion : BOOLEAN, hasText : BOOLEAN, nStudies : 0..MaxStudies, zeroVar : BOOLEAN] :
        m.zeroVar => m.nStudies >= 1}

ReviewIdle ==
    /\ env = [envOk |-> TRUE, apiKey |-> TRUE, clientOk |-> TRUE, agentsOk |-> TRUE, llmRaise |-> FALSE]
    /\ ms = [hasQuestion |-> TRUE, hasText |-> TRUE, nStudies |-> 0, zeroVar |-> FALSE]
    /\ entry = "none" /\ use_llm = TRUE /\ rpc = "off" /\ cur = 0
    /\ gstate = initial_state /\ sstate = seq_locals /\ result = NoResult
    /\ trace = <<>> /\ llmFailed = {} /\ llmCalled = {} /\ steps = 0

\* One review call.  app.orchestrator's LLM_AGENTS_AVAILABLE is False only when
\* pico_parser_enhanced, rob_assessor or llm_config cannot be imported; every
\* module those three import is imported by langraph_orchestrator itself
\* (lines 14-24), so a process in which run_multi_agent_review can be called
\* has LLM_AGENTS_AVAILABLE = True.
InitReview ==
    /\ env \in Environments
    /\ ms \in Manuscripts
    /\ entry \in {"graph", "simple", "enhanced"}
    /\ entry = "graph" => env.agentsOk
    /\ use_llm \in BOOLEAN
    /\ entry = "simple" => use_llm
    /\ rpc = "init" /\ cur = 0
    /\ gstate = initial_state /\ sstate = seq_locals /\ result = NoResult
    /\ trace = <<>> /\ llmFailed = {} /\ llmCalled = {} /\ steps = 0

\* run_multi_agent_review: builds initial_state and calls graph.invoke (START -> supervisor)
GraphInvoke ==
    /\ rpc = "init" /\ entry = "graph"
    /\ rpc' = "supervisor" /\ gstate' = initial_state /\ steps' = 1
    /\ UNCHANGED <<env, ms, entry, use_llm, cur, sstate, result, trace, llmFailed, llmCalled>>
    /\ UNCHANGED <<logVars, streamVars, uploadVars, agentVars, svcVars>>

\* one visit of the supervisor node; the engine raises once recursion_limit
\* steps were taken without reaching END
Supervisor ==
    /\ rpc = "supervisor"
    /\ LET d == supervisor_agent(gstate, env)
       IN  IF steps >= recursion_limit
             THEN rpc' = "fallback" /\ UNCHANGED <<gstate, cur, steps>>
             ELSE /\ gstate' = d.st
                  /\ steps' = steps + 1
                  /\ cur' = d.goto
                  /\ rpc' = IF d.goto = 0 THEN "convert" ELSE "node"
    /\ UNCHANGED <<env, ms, entry, use_llm, sstate, result, trace, llmFailed, llmCalled>>
    /\ UNCHANGED <<logVars, streamVars, uploadVars, agentVars, svcVars>>

\* an agent node is entered
NodeStart ==
    /\ rpc = "node"
    /\ trace' = Append(trace, Ev("start", cur, "graph"))
    /\ rpc' = "node_run"
    /\ UNCHANGED <<env, ms, entry, use_llm, cur, gstate, sstate, result, llmFailed, llmCalled, steps>>
    /\ UNCHANGED <<logVars, streamVars, uploadVars, agentVars, svcVars>>

\* the agent node runs to its return (back to the supervisor) or raises
\* (graph.invoke raises, caught by run_multi_agent_review)
NodeFinish ==
    /\ rpc = "node_run"
    /\ \E r \in LLMOutcomes(env) :
         LET nr == Node(cur, gstate, ms, env, r)
         IN  /\ trace' = Append(trace, Ev(IF nr.raised THEN "raise" ELSE "end", cur, "graph"))
             /\ llmFailed' = IF nr.failed THEN llmFailed \cup {<<"graph", cur>>} ELSE llmFailed
             /\ llmCalled' = IF nr.called THEN llmCalled \cup {<<"graph", cur>>} ELSE llmCalled
             /\ IF nr.raised
                  THEN rpc' = "fallback" /\ UNCHANGED <<gstate, ms, steps>>
                  ELSE /\ rpc' = "supervisor"
                       /\ gstate' = nr.st /\ ms' = nr.ms /\ steps' = steps + 1
    /\ UNCHANGED <<env, entry, use_llm, cur, sstate, result>>
    /\ UNCHANGED <<logVars, streamVars, uploadVars, agentVars, svcVars>>

\* run_multi_agent_review after graph.invoke: final_state -> ReviewResult;
\* final_state.get("llm_config", {}) is None when the supervisor never resolved
\* it, and None.get raises inside the try
Convert ==
    /\ rpc = "convert"
    /\ IF ~gstate.llm_config.set
         THEN rpc' = "fallback" /\ UNCHANGED result
         ELSE /\ rpc' = "returned"
              /\ result' = [via |-> "graph", issues |-> gstate.issues,
                            meta |-> gstate.meta_results,
                            analysis_methods |-> gstate.analysis_methods]
    /\ UNCHANGED <<env, ms, entry, use_llm, cur, gstate, sstate, trace, llmFailed, llmCalled, steps>>
    /\ UNCHANGED <<logVars, streamVars, uploadVars, agentVars, svcVars>>

\* the except branch of run_multi_agent_review: return simple_review(manuscript)
Fallback ==
    /\ rpc = "fallback"
    /\ rpc' = "s_agent" /\ cur' = 1 /\ sstate' = seq_locals
    /\ UNCHANGED <<env, ms, entry, use_llm, gstate, result, trace, llmFailed, llmCalled, steps>>
    /\ UNCHANGED <<logVars, streamVars, uploadVars, agentVars, svcVars>>

\* simple_review / enhanced_review called directly
SeqCall ==
    /\ rpc = "init" /\ entry \in {"simple", "enhanced"}
    /\ rpc' = "s_agent" /\ cur' = 1 /\ sstate' = seq_locals
    /\ UNCHANGED <<env, ms, entry, use_llm, gstate, result, trace, llmFailed, llmCalled, steps>>
    /\ UNCHANGED <<logVars, streamVars, uploadVars, agentVars, svcVars>>

\* the next block of the sequential orchestrator starts its agent
SeqAgentStart ==
    /\ rpc = "s_agent" /\ cur <= 4 /\ SeqRuns(SeqKind, cur, env, use_llm)
    /\ trace' = Append(trace, Ev("start", cur, SeqKind))
    /\ rpc' = "s_run"
    /\ UNCHANGED <<env, ms, entry, use_llm, cur, gstate, sstate, result, llmFailed, llmCalled, steps>>
    /\ UNCHANGED <<logVars, streamVars, uploadVars, agentVars, svcVars>>

\* the else branch of the Risk-of-Bias block: no agent is run
SeqAgentSkip ==
    /\ rpc = "s_agent" /\ cur <= 4 /\ ~SeqRuns(SeqKind, cur, env, use_llm)
    /\ sstate' = [sstate EXCEPT !.analysis_methods = @ \o SeqSkipMethods(SeqKind, use_llm)]
    /\ cur' = SeqNext(cur)
    /\ UNCHANGED <<env, ms, entry, use_llm, rpc, gstate, result, trace, llmFailed, llmCalled, steps>>
    /\ UNCHANGED <<logVars, streamVars, uploadVars, agentVars, svcVars>>

\* the agent of the block returns, or raises out of the orchestrator
SeqAgentFinish ==
    /\ rpc = "s_run"
    /\ \E r \in LLMOutcomes(env) :
         LET sr == SeqAgent(SeqKind, cur, sstate, ms, env, use_llm, r)
         IN  /\ trace' = Append(trace, Ev(IF sr.raised THEN "raise" ELSE "end", cur, SeqKind))
             /\ llmFailed' = IF sr.failed THEN llmFailed \cup {<<SeqKind, cur>>} ELSE llmFailed
             /\ llmCalled' = IF sr.called THEN llmCalled \cup {<<SeqKind, cur>>} ELSE llmCalled
             /\ IF sr.raised
                  THEN rpc' = "raised" /\ UNCHANGED <<sstate, ms, cur>>
                  ELSE /\ rpc' = "s_agent" /\ cur' = SeqNext(cur)
                       /\ sstate' = sr.st /\ ms' = sr.ms
    /\ UNCHANGED <<env, entry, use_llm, gstate, result, steps>>
    /\ UNCHANGED <<logVars, streamVars, uploadVars, agentVars, svcVars>>

\* return ReviewResult(issues, meta, analysis_metadata)
SeqReturn ==
    /\ rpc = "s_agent" /\ cur > 4
    /\ rpc' = "returned"
    /\ result' = [via |-> SeqKind, issues |-> sstate.issues, meta |-> sstate.meta,
                  analysis_methods |-> sstate.analysis_methods]
    /\ UNCHANGED <<env, ms, entry, use_llm, cur, gstate, sstate, trace, llmFailed, llmCalled, steps>>
    /\ UNCHANGED <<logVars, streamVars, uploadVars, agentVars, svcVars>>

ReviewStep ==
    \/ GraphInvoke \/ Supervisor \/ NodeStart \/ NodeFinish \/ Convert \/ Fallback
    \/ SeqCall \/ SeqAgentStart \/ SeqAgentSkip \/ SeqAgentFinish \/ SeqReturn


-----------------------------------------------------------------------------
(***************************************************************************)
(* LOG BROADCASTING: app/logstream.py                                      *)
(* The handler is installed on the root logger, so emit is entered only    *)
(* through logging.Handler.handle, which holds the handler's own lock      *)
(* around emit.  _lock guards each single access to _listeners: every      *)
(* critical section is one atomic action.                                  *)
(***************************************************************************)

Listeners == 1..MaxListeners
Emitters == 1..MaxEmitters
Lines == 1..MaxLogs

\* register_listener: with _lock: _listeners.add(_cb)
Added(ls, cb) == ls \cup {cb}

\* unregister_listener: with _lock: _listeners.discard(cb)
Discarded(ls, cb) == ls \ {cb}

\* BroadcastHandler.emit: with _lock: listeners = list(_listeners)
Snapshot(ls) == ls

\* a loop that a raising callback ends
AfterCallbackAborting(rest, cb, raised) == IF raised THEN {} ELSE rest \ {cb}

\* the loop of emit after cb(msg) returned or raised: "except Exception: pass"
\* goes on with the remaining callbacks
AfterCallback(rest, cb, raised) == rest \ {cb}

\* _cb of register_listener: q.put(line); a callback that raises puts nothing
Put(q, line, raised) == IF raised THEN q ELSE Append(q, line)

\* Handler.handle may enter emit only with the handler's lock free
HandlerLockFree(h) == h = 0

LogIdle ==
    /\ listeners = {}
    /\ queue = [l \in Listeners |-> <<>>]
    /\ lstate = [l \in Listeners |-> [phase |-> "new", raises |-> FALSE]]
    /\ epc = [t \in Emitters |-> "idle"]
    /\ emsg = [t \in Emitters |-> 0]
    /\ esnap = [t \in Emitters |-> {}]
    /\ hlock = 0 /\ logCount = 0
    /\ stable = {}
    /\ emitted = 0

\* register_listener, as an effect on the log state; raises tells whether the
\* registered callback is one that raises when called
DoRegister(l, raises) ==
    /\ listeners' = Added(listeners, l)
    /\ lstate' = [lstate EXCEPT ![l] = [phase |-> "registered", raises |-> raises]]
    /\ queue' = [queue EXCEPT ![l] = <<>>]
    /\ UNCHANGED <<epc, emsg, esnap, hlock, logCount, stable, emitted>>

\* unregister_listener, as an effect on the log state
DoUnregister(l) ==
    /\ listeners' = Discarded(listeners, l)
    /\ lstate' = [lstate EXCEPT ![l].phase = "unregistered"]
    /\ stable' = IF emitted = 0 THEN stable \ {l} ELSE stable
    /\ UNCHANGED <<queue, epc, emsg, esnap, hlock, logCount, emitted>>

\* a client of the module registers a listener
RegisterListener(l) ==
    /\ lstate[l].phase = "new"
    /\ \E raises \in BOOLEAN : DoRegister(l, raises)
    /\ UNCHANGED <<reviewVars, streamVars, uploadVars, agentVars, svcVars>>

\* a client of the module unregisters its listener
UnregisterListener(l) ==
    /\ lstate[l].phase = "registered"
    /\ DoUnregister(l)
    /\ UNCHANGED <<reviewVars, streamVars, uploadVars, agentVars, svcVars>>

\* Handler.handle takes the handler lock and emit formats the record; when
\* format raises, emit returns and nothing is broadcast
EmitBegin(t) ==
    /\ epc[t] = "idle" /\ HandlerLockFree(hlock) /\ logCount < MaxLogs
    /\ logCount' = logCount + 1
    /\ emsg' = [emsg EXCEPT ![t] = logCount + 1]
    /\ \E formatted \in BOOLEAN :
         IF formatted
           THEN /\ hlock' = t
                /\ epc' = [epc EXCEPT ![t] = "formatted"]
                /\ stable' = listeners
                /\ emitted' = 0
           ELSE /\ hlock' = hlock
                /\ epc' = epc
                /\ stable' = stable
                /\ emitted' = emitted
    /\ UNCHANGED <<listeners, queue, lstate, esnap>>
    /\ UNCHANGED <<reviewVars, streamVars, uploadVars, agentVars, svcVars>>

\* emit copies the registry under _lock
EmitSnapshot(t) ==
    /\ epc[t] = "formatted"
    /\ esnap' = [esnap EXCEPT ![t] = Snapshot(listeners)]
    /\ epc' = [epc EXCEPT ![t] = "calling"]
    /\ UNCHANGED <<listeners, queue, lstate, emsg, hlock, logCount, stable, emitted>>
    /\ UNCHANGED <<reviewVars, streamVars, uploadVars, agentVars, svcVars>>

\* emit calls one callback of its copy (a set: any order)
EmitCall(t) ==
    /\ epc[t] = "calling" /\ esnap[t] # {}
    /\ \E cb \in esnap[t] :
         /\ queue' = [queue EXCEPT ![cb] = Put(@, emsg[t], lstate[cb].raises)]
         /\ esnap' = [esnap EXCEPT ![t] = AfterCallback(@, cb, lstate[cb].raises)]
    /\ UNCHANGED <<listeners, lstate, epc, emsg, hlock, logCount, stable, emitted>>
    /\ UNCHANGED <<reviewVars, streamVars, uploadVars, agentVars, svcVars>>

\* emit returns and Handler.handle releases the handler lock
EmitEnd(t) ==
    /\ epc[t] = "calling" /\ esnap[t] = {}
    /\ epc' = [epc EXCEPT ![t] = "idle"]
    /\ hlock' = 0
    /\ emitted' = emsg[t]
    /\ UNCHANGED <<listeners, queue, lstate, emsg, esnap, logCount, stable>>
    /\ UNCHANGED <<reviewVars, streamVars, uploadVars, agentVars, svcVars>>

EmitStep == \E t \in Emitters : EmitBegin(t) \/ EmitSnapshot(t) \/ EmitCall(t) \/ EmitEnd(t)


-----------------------------------------------------------------------------
(***************************************************************************)
(* SSE GENERATORS: generate_events of start_review_streaming and of        *)
(* upload_and_review_streaming (app/main.py).  Stream s owns listener s.   *)
(* A generator suspended at a yield is either resumed or closed by the     *)
(* server (client gone): close raises GeneratorExit at the yield, which    *)
(* "except Exception" does not catch and which runs the finally blocks.    *)
(***************************************************************************)

Streams == 1..MaxStreams

\* SSE payloads; sequence -1 stands for a payload without a sequence field
SSE(type, sequence, line) == [type |-> type, sequence |-> sequence, line |-> line]

\* run_multi_agent_review_streaming: what next() on the orchestration generator
\* can do after n events: one more event, the end of the review, or an exception
StreamingOutcomes(n) == IF n < MaxEvents THEN {"event", "raise"} ELSE {"stop", "raise"}

\* an exception that reaches the except branch without passing a finally
OnExceptionSkipsFinally(ep) == "error"

\* where an exception of the loop lands: the except branch (start endpoint),
\* the inner finally (upload endpoint)
OnException(ep) == IF ep = "start" THEN "error" ELSE "finally"

\* a generator that goes on to the manuscript event whatever happened
AfterFinallyAlwaysManuscript(ep, h) == IF ep = "upload" THEN "manuscript" ELSE "done"

\* after unregister_listener: the start endpoint's generator is over; the
\* upload endpoint's goes on to the manuscript event or to its except branch
AfterFinally(ep, h) ==
    IF ep = "upload" /\ h = "ok" THEN "manuscript"
    ELSE IF ep = "upload" /\ h = "error" THEN "error"
    ELSE "done"

\* the sequence field of the error payload
ErrorSequence(ep, n) == IF ep = "start" THEN n ELSE -1

\* "seq += 1" before a log line is yielded
LogSeq(n) == n + 1

\* "seq += 1" after an orchestration event was yielded
EventSeq(n) == n + 1

StreamIdle ==
    /\ spc = [s \in Streams |-> "off"]
    /\ endpoint = [s \in Streams |-> "start"]
    /\ seq = [s \in Streams |-> 0]
    /\ evn = [s \in Streams |-> 0]
    /\ held = [s \in Streams |-> 0]
    /\ out = [s \in Streams |-> <<>>]
    /\ how = [s \in Streams |-> "running"]
    /\ late = [s \in Streams |-> {}]

\* upload generator: yield extraction_complete (sequence 0); seq += 1
GenExtraction(s) ==
    /\ spc[s] = "init" /\ endpoint[s] = "upload"
    /\ out' = [out EXCEPT ![s] = Append(@, SSE("extraction_complete", seq[s], 0))]
    /\ \E closed \in BOOLEAN :
         IF closed
           THEN /\ spc' = [spc EXCEPT ![s] = "done"]
                /\ how' = [how EXCEPT ![s] = "closed"]
                /\ UNCHANGED seq
           ELSE /\ spc' = [spc EXCEPT ![s] = "register"]
                /\ seq' = [seq EXCEPT ![s] = seq[s] + 1]
                /\ UNCHANGED how
    /\ UNCHANGED <<endpoint, evn, held, late>>
    /\ UNCHANGED <<logVars, reviewVars, uploadVars, agentVars, svcVars>>

\* ensure_handler_installed(); log_queue, callback = register_listener()
GenRegister(s) ==
    /\ spc[s] = (IF endpoint[s] = "start" THEN "init" ELSE "register")
    /\ DoRegister(s, FALSE)
    /\ spc' = [spc EXCEPT ![s] = "next"]
    /\ UNCHANGED <<endpoint, seq, evn, held, out, how, late>>
    /\ UNCHANGED <<reviewVars, uploadVars, agentVars, svcVars>>

\* "for event in run_multi_agent_review_streaming(manuscript)": next()
GenNext(s) ==
    /\ spc[s] = "next"
    /\ \E o \in StreamingOutcomes(evn[s]) :
         CASE o = "event" -> /\ evn' = [evn EXCEPT ![s] = evn[s] + 1]
                             /\ spc' = [spc EXCEPT ![s] = "drain"]
                             /\ UNCHANGED how
           [] o = "stop"  -> /\ spc' = [spc EXCEPT ![s] = "fdrain"]
                             /\ UNCHANGED <<evn, how>>
           [] o = "raise" -> /\ spc' = [spc EXCEPT ![s] = OnException(endpoint[s])]
                             /\ how' = [how EXCEPT ![s] = "error"]
                             /\ UNCHANGED evn
    /\ UNCHANGED <<endpoint, seq, held, out, late>>
    /\ UNCHANGED <<logVars, reviewVars, uploadVars, agentVars, svcVars>>

\* "while not log_queue.empty(): log_line = log_queue.get(); seq += 1", in the
\* loop ("drain") and after it ("fdrain")
GenCheck(s) ==
    /\ spc[s] \in {"drain", "fdrain"}
    /\ IF queue[s] = <<>>
         THEN /\ spc' = [spc EXCEPT ![s] = IF spc[s] = "drain" THEN "event" ELSE "finally"]
              /\ how' = [how EXCEPT ![s] = IF spc[s] = "drain" THEN @ ELSE "ok"]
              /\ UNCHANGED <<queue, held, seq>>
         ELSE /\ held' = [held EXCEPT ![s] = Head(queue[s])]
              /\ queue' = [queue EXCEPT ![s] = Tail(@)]
              /\ seq' = [seq EXCEPT ![s] = LogSeq(seq[s])]
              /\ spc' = [spc EXCEPT ![s] = IF spc[s] = "drain" THEN "log" ELSE "flog"]
              /\ UNCHANGED how
    /\ UNCHANGED <<endpoint, evn, out, late>>
    /\ UNCHANGED <<listeners, lstate, epc, emsg, esnap, hlock, logCount, stable, emitted>>
    /\ UNCHANGED <<reviewVars, uploadVars, agentVars, svcVars>>

\* yield the log payload {"type": "log", "line": log_line, "sequence": seq}
GenLog(s) ==
    /\ spc[s] \in {"log", "flog"}
    /\ out' = [out EXCEPT ![s] = Append(@, SSE("log", seq[s], held[s]))]
    /\ \E closed \in BOOLEAN :
         IF closed
           THEN /\ spc' = [spc EXCEPT ![s] = "finally"]
                /\ how' = [how EXCEPT ![s] = "closed"]
           ELSE /\ spc' = [spc EXCEPT ![s] = IF spc[s] = "log" THEN "drain" ELSE "fdrain"]
                /\ UNCHANGED how
    /\ UNCHANGED <<endpoint, seq, evn, held, late>>
    /\ UNCHANGED <<logVars, reviewVars, uploadVars, agentVars, svcVars>>

\* yield the orchestration event with "sequence": seq; seq += 1
GenEvent(s) ==
    /\ spc[s] = "event"
    /\ out' = [out EXCEPT ![s] = Append(@, SSE("event", seq[s], 0))]
    /\ late' = [late EXCEPT ![s] = IF evn[s] >= 2 THEN @ \cup Range(queue[s]) ELSE @]
    /\ \E closed \in BOOLEAN :
         IF closed
           THEN /\ spc' = [spc EXCEPT ![s] = "finally"]
                /\ how' = [how EXCEPT ![s] = "closed"]
                /\ UNCHANGED seq
           ELSE /\ spc' = [spc EXCEPT ![s] = "next"]
                /\ seq' = [seq EXCEPT ![s] = EventSeq(seq[s])]
                /\ UNCHANGED how
    /\ UNCHANGED <<endpoint, evn, held>>
    /\ UNCHANGED <<logVars, reviewVars, uploadVars, agentVars, svcVars>>

\* except Exception: yield the error payload
GenError(s) ==
    /\ spc[s] = "error"
    /\ out' = [out EXCEPT ![s] = Append(@, SSE("error", ErrorSequence(endpoint[s], seq[s]), 0))]
    /\ spc' = [spc EXCEPT ![s] = IF endpoint[s] = "start" THEN "finally" ELSE "done"]
    /\ UNCHANGED <<endpoint, seq, evn, held, how, late>>
    /\ UNCHANGED <<logVars, reviewVars, uploadVars, agentVars, svcVars>>

\* finally: unregister_listener(callback)
GenFinally(s) ==
    /\ spc[s] = "finally"
    /\ DoUnregister(s)
    /\ spc' = [spc EXCEPT ![s] = AfterFinally(endpoint[s], how[s])]
    /\ UNCHANGED <<endpoint, seq, evn, held, out, how, late>>
    /\ UNCHANGED <<reviewVars, uploadVars, agentVars, svcVars>>

\* upload generator: yield the manuscript payload with "sequence": seq
GenManuscript(s) ==
    /\ spc[s] = "manuscript"
    /\ out' = [out EXCEPT ![s] = Append(@, SSE("manuscript", seq[s], 0))]
    /\ spc' = [spc EXCEPT ![s] = "done"]
    /\ UNCHANGED <<endpoint, seq, evn, held, how, late>>
    /\ UNCHANGED <<logVars, reviewVars, uploadVars, agentVars, svcVars>>

GenStep ==
    \E s \in Streams :
        \/ GenExtraction(s) \/ GenRegister(s) \/ GenNext(s) \/ GenCheck(s) \/ GenLog(s)
        \/ GenEvent(s) \/ GenError(s) \/ GenFinally(s) \/ GenManuscript(s)


-----------------------------------------------------------------------------
(***************************************************************************)
(* UPLOAD HANDLERS: upload_and_review, parse_manuscript and                *)
(* upload_and_review_streaming (app/main.py).  File names are sequences of *)
(* characters.                                                             *)
(***************************************************************************)

Upper == <<"A", "C", "D", "O", "T", "X">>
LowerOf == <<"a", "c", "d", "o", "t", "x">>

\* str.lower(), character by character
LowerChar(c) ==
    IF \E i \in DOMAIN Upper : Upper[i] = c
      THEN LowerOf[CHOOSE i \in DOMAIN Upper : Upper[i] = c]
      ELSE c

Lower(name) == [i \in DOMAIN name |-> LowerChar(name[i])]

\* str.endswith(suffix)
EndsWith(name, suffix) ==
    /\ Len(name) >= Len(suffix)
    /\ SubSeq(name, Len(name) - Len(suffix) + 1, Len(name)) = suffix

DotDocx == <<".", "d", "o", "c", "x">>
DotDoc == <<".", "d", "o", "c">>

\* the file type validation: the request is refused when this holds
InvalidFileType(name) ==
    name = <<>> \/ ~(EndsWith(Lower(name), DotDocx) \/ EndsWith(Lower(name), DotDoc))

\* Path(name).suffix: from the last dot on, empty when there is no dot or the
\* only dot leads the name
Suffix(name) ==
    LET dots == {i \in DOMAIN name : name[i] = "."}
        last == CHOOSE i \in dots : \A j \in dots : j <= i
    IN  IF dots = {} \/ dots = {1} THEN <<>> ELSE SubSeq(name, last, Len(name))

\* extract_manuscript_from_file on the temporary file, which carries the
\* suffix of the uploaded name: create_processor raises on an unsupported
\* suffix; WordProcessor.extract_manuscript returns a manuscript, or None for
\* whatever goes wrong with the document: Document(docx_path) raising on a
\* content that is no Word document is caught there like everything else
ExtractOutcomes(name, opens) ==
    IF Lower(Suffix(name)) \in {DotDocx, DotDoc}
      THEN (IF opens THEN {"manuscript", "none"} ELSE {"none"})
      ELSE {"raise"}

\* the declared fields of ReviewResult
ReviewResultFields == {"issues", "meta", "extraction_info", "analysis_metadata"}

\* assignment to an attribute of a pydantic model raises for an undeclared field
SetAttrRaises(fields, name) == name \notin fields

\* a handler that answers 500 to every exception
StatusAlways500(exc) == IF exc = "none" THEN 200 ELSE 500

\* the status of the response, from the exception that leaves the handler
StatusOf(exc) == CASE exc = "none" -> 200 [] exc = "http422" -> 422 [] OTHER -> 500

\* finally: if tmp_path.exists(): tmp_path.unlink()
Unlinked(t) == IF t = "exists" THEN "deleted" ELSE t

Filenames ==
    { <<>>,
      <<"a", ".", "d", "o", "c", "x">>,
      <<"a", ".", "D", "O", "C", "X">>,
      <<"a", ".", "d", "o", "c">>,
      <<"a", ".", "t", "x", "t">>,
      <<"d", "o", "c", "x">>,
      <<".", "d", "o", "c">>,
      <<"a", ".", "d", "o", "c", "x", ".", "t", "x", "t">> }

UploadEndpoints == {"upload", "stream", "parse"}

\* the manuscripts an ingestion can produce: a document that was parsed has
\* text, and variances play no part here
UploadManuscripts == {m \in Manuscripts : m.hasText /\ ~m.zeroVar}

NoManuscript == [hasQuestion |-> FALSE, hasText |-> TRUE, nStudies |-> 0, zeroVar |-> FALSE]

NoInfo == [set |-> FALSE, pico |-> FALSE, studies |-> 0]

NoResponse == [kind |-> "none", info |-> NoInfo, manuscript |-> FALSE]

\* the extraction_info dictionary built from the manuscript object as it is at
\* that moment: "pico": manuscript.question is not None, "studies":
\* len(manuscript.included_studies) if manuscript.included_studies else 0
ExtractionInfo(m) == [set |-> TRUE, pico |-> m.hasQuestion, studies |-> m.nStudies]

\* the manuscript object after run_multi_agent_review(manuscript): the PICO
\* agent writes the extracted question back onto it when its LLM call succeeds
ReviewedManuscripts(m) ==
    {EnhancedPICOParser_run(m, TRUE, TRUE, r).ms : r \in {"ok", "raise"}}

UploadIdle ==
    /\ upc = "off" /\ ureq = [endpoint |-> "upload", filename |-> <<>>, opens |-> TRUE]
    /\ tmp = "none" /\ ustatus = 0 /\ uexc = "none" /\ ufail = "none"
    /\ uman = NoManuscript /\ uresp = NoResponse

InitUpload ==
    /\ upc = "init"
    /\ ureq \in [endpoint : UploadEndpoints, filename : Filenames, opens : BOOLEAN]
    /\ tmp = "none" /\ ustatus = 0 /\ uexc = "none" /\ ufail = "none"
    /\ uman = NoManuscript /\ uresp = NoResponse

\* "Validate file type": HTTPException(400) before anything else is done
UploadValidate ==
    /\ upc = "init"
    /\ IF InvalidFileType(ureq.filename)
         THEN upc' = "done" /\ ustatus' = 400 /\ ufail' = "filetype"
         ELSE upc' = "create" /\ UNCHANGED <<ustatus, ufail>>
    /\ UNCHANGED <<ureq, tmp, uexc, uman, uresp>>
    /\ UNCHANGED <<reviewVars, logVars, streamVars, agentVars, svcVars>>

\* NamedTemporaryFile(delete=False) and shutil.copyfileobj, before the try: an
\* exception of the copy leaves the handler as it is (the framework answers 500)
UploadSave ==
    /\ upc = "create"
    /\ tmp' = "exists"
    /\ \E copied \in BOOLEAN :
         IF copied
           THEN upc' = "extract" /\ UNCHANGED <<ustatus, ufail>>
           ELSE upc' = "done" /\ ustatus' = 500 /\ ufail' = "copy"
    /\ UNCHANGED <<ureq, uexc, uman, uresp>>
    /\ UNCHANGED <<reviewVars, logVars, streamVars, agentVars, svcVars>>

\* try: manuscript = extract_manuscript_from_file(tmp_path); if not manuscript:
\* raise HTTPException(422); parse_manuscript and the streaming handler then
\* build their response
UploadExtract ==
    /\ upc = "extract"
    /\ \E o \in ExtractOutcomes(ureq.filename, ureq.opens) :
         CASE o = "manuscript" ->
                /\ upc' = IF ureq.endpoint = "upload" THEN "review" ELSE "finally"
                /\ \E m \in UploadManuscripts :
                     /\ uman' = m
                     /\ uresp' = CASE ureq.endpoint = "parse" ->
                                       [kind |-> "manuscript", info |-> NoInfo, manuscript |-> TRUE]
                                  [] ureq.endpoint = "stream" ->
                                       [kind |-> "stream", info |-> ExtractionInfo(m),
                                        manuscript |-> FALSE]
                                  [] OTHER -> uresp
                /\ UNCHANGED <<uexc, ufail>>
           [] o = "none" ->
                /\ upc' = "finally" /\ uexc' = "http422" /\ ufail' = "nomanuscript"
                /\ UNCHANGED <<uman, uresp>>
           [] o = "raise" ->
                /\ upc' = "finally" /\ uexc' = "http500" /\ ufail' = "extract"
                /\ UNCHANGED <<uman, uresp>>
    /\ UNCHANGED <<ureq, tmp, ustatus>>
    /\ UNCHANGED <<reviewVars, logVars, streamVars, agentVars, svcVars>>

\* upload_and_review: result = run_multi_agent_review(manuscript);
\* result.manuscript = manuscript; except Exception: raise HTTPException(500)
UploadReview ==
    /\ upc = "review"
    /\ \E o \in {"ok", "raise"}, m \in ReviewedManuscripts(uman) :
         IF o = "raise"
           THEN uexc' = "http500" /\ ufail' = "review" /\ UNCHANGED uresp
           ELSE IF SetAttrRaises(ReviewResultFields, "manuscript")
                  THEN uexc' = "http500" /\ ufail' = "setattr" /\ UNCHANGED uresp
                  ELSE /\ uresp' = [kind |-> "result", info |-> ExtractionInfo(m),
                                    manuscript |-> TRUE]
                       /\ UNCHANGED <<uexc, ufail>>
    /\ upc' = "finally"
    /\ UNCHANGED <<ureq, tmp, ustatus, uman>>
    /\ UNCHANGED <<reviewVars, logVars, streamVars, agentVars, svcVars>>

\* finally: the temporary file is removed and the handler returns; the body of
\* a StreamingResponse is generated after that
UploadFinally ==
    /\ upc = "finally"
    /\ tmp' = Unlinked(tmp)
    /\ ustatus' = StatusOf(uexc)
    /\ IF ureq.endpoint = "stream" /\ uexc = "none"
         THEN /\ upc' = "streaming"
              /\ spc' = [spc EXCEPT ![1] = "init"]
              /\ endpoint' = [endpoint EXCEPT ![1] = "upload"]
         ELSE /\ upc' = "done"
              /\ UNCHANGED <<spc, endpoint>>
    /\ UNCHANGED <<ureq, uexc, ufail, uman, uresp>>
    /\ UNCHANGED <<seq, evn, held, out, how, late>>
    /\ UNCHANGED <<reviewVars, logVars, agentVars, svcVars>>

\* the server has sent the whole body of the StreamingResponse
UploadStreamed ==
    /\ upc = "streaming" /\ spc[1] = "done"
    /\ upc' = "done"
    /\ ufail' = IF how[1] = "error" THEN "stream" ELSE ufail
    /\ UNCHANGED <<ureq, tmp, ustatus, uexc, uman, uresp>>
    /\ UNCHANGED <<reviewVars, logVars, streamVars, agentVars, svcVars>>

UploadStep ==
    \/ UploadValidate \/ UploadSave \/ UploadExtract \/ UploadReview
    \/ UploadFinally \/ UploadStreamed

-----------------------------------------------------------------------------
(***************************************************************************)
(* AGENTS CALLED ON THEIR OWN: EnhancedMetaAnalysis.run                    *)
(* (app/agents/meta_analysis.py) and the rule-based PICO parser            *)
(* (app/agents/pico_parser.py), applied to manuscripts drawn from bounded  *)
(* sets.  A variance is 0 or positive (written 1); texts are taken from    *)
(* small sets chosen for the keywords the rules look for.                  *)
(***************************************************************************)
MaxEffects == 4
MaxOutcomes == 2

SeqsUpTo(S, n) == UNION {[1..k -> S] : k \in 0..n}

OutcomeNames == {"mortality", "stroke"}

\* OutcomeEffect: name and var (effect and effect_metric do not steer the control flow)
OutcomeEffects == [name : OutcomeNames, var : {0, 1}]

\* the ways to hand the effects out to n studies, study after study: every
\* study reports a run of them, possibly none
RECURSIVE StudyLists(_, _)
StudyLists(effects, n) ==
    IF n = 0 THEN (IF effects = <<>> THEN {<<>>} ELSE {})
    ELSE UNION {{<<SubSeq(effects, 1, k)>> \o rest :
                    rest \in StudyLists(SubSeq(effects, k + 1, Len(effects)), n - 1)}
                : k \in 0..Len(effects)}

\* Manuscript.included_studies: up to MaxStudies studies with up to MaxEffects
\* effects between them
IncludedStudies ==
    UNION {UNION {StudyLists(effects, n) : n \in 0..MaxStudies}
           : effects \in SeqsUpTo(OutcomeEffects, MaxEffects)}

\* "for s in studies: for o in s.outcomes": the effects in the order visited
RECURSIVE EffectsInOrder(_)
EffectsInOrder(studies) ==
    IF studies = <<>> THEN <<>> ELSE Head(studies) \o EffectsInOrder(Tail(studies))

\* the keys of the dict built with setdefault, in insertion order
RECURSIVE KeysInOrder(_)
KeysInOrder(effects) ==
    IF effects = <<>> THEN <<>>
    ELSE LET before == KeysInOrder(SubSeq(effects, 1, Len(effects) - 1))
             name == effects[Len(effects)].name
         IN  IF name \in Range(before) THEN before ELSE Append(before, name)

\* outcomes[name] of _group_effects_by_outcome
EffectsOf(studies, name) ==
    LET Named(e) == e.name = name
    IN  SelectSeq(EffectsInOrder(studies), Named)

\* a rule that asks for three effects
TooFewEffectsForThree(effects) == Len(effects) < 3

\* "if len(effects) < 2: continue"
TooFewEffects(effects) == Len(effects) < 2

\* "1.0 / e.var" in _fixed_effect and _random_effect
PoolingRaises(effects) == \E i \in DOMAIN effects : effects[i].var = 0

\* the evidence put on both results of an outcome: plot paths when the plots
\* were written, the interpretation when the LLM call gave one
EvidenceOf(forest, funnel, llm) ==
    (IF forest THEN {"forest_plot"} ELSE {})
      \cup (IF funnel THEN {"funnel_plot"} ELSE {})
      \cup (IF llm = "ok" THEN {"llm_interpretation"} ELSE {})

\* _fixed_effect / _random_effect followed by "fe.outcome = outcome"
PooledResult(model, outcome, effects, evidence) ==
    [outcome |-> outcome, k |-> Len(effects), model |-> model, evidence |-> evidence]

\* the loop "for outcome, effects in outcomes.items()" of EnhancedMetaAnalysis.run
RECURSIVE MetaLoop(_, _, _, _, _)
MetaLoop(names, studies, forest, funnel, llm) ==
    IF names = <<>> THEN [raised |-> FALSE, results |-> <<>>]
    ELSE LET effects == EffectsOf(studies, Head(names))
             rest == MetaLoop(Tail(names), studies, forest, funnel, llm)
             ev == EvidenceOf(forest, funnel, llm)
         IN  IF TooFewEffects(effects) THEN rest
             ELSE IF PoolingRaises(effects) \/ rest.raised
               THEN [raised |-> TRUE, results |-> <<>>]
             ELSE [raised |-> FALSE,
                   results |-> <<PooledResult("fixed", Head(names), effects, ev),
                                 PooledResult("random", Head(names), effects, ev)>>
                               \o rest.results]

\* EnhancedMetaAnalysis.run(manuscript)
MetaAnalysisRunOn(studies, forest, funnel, llm) ==
    MetaLoop(KeysInOrder(EffectsInOrder(studies)), studies, forest, funnel, llm)

\* ---- the rule-based PICO parser ----

\* population texts; "None" stands for None
Populations == {"None", "", "patients with CKD", "adults with CKD",
                "patients with advanced CKD", "adults with advanced CKD"}
Interventions == {"None", "", "drug"}
Comparators == {"None", "", "placebo"}
OutcomeTexts == {"mortality", "6-month mortality", "composite of death and stroke"}
Frameworks == {"PICO", "PS"}

\* re.search(age_pattern, population.lower())
AgeSpecified(population) == population \in {"adults with CKD", "adults with advanced CKD"}

\* any(kw in population.lower() for kw in severity_keywords)
SeveritySpecified(population) ==
    population \in {"patients with advanced CKD", "adults with advanced CKD"}

\* any(kw in o.lower() for kw in time_keywords)
HasTimepoint(o) == o = "6-month mortality"

\* any(kw in o.lower() for kw in composite_keywords)
IsComposite(o) == o = "composite of death and stroke"

NoQuestion ==
    [set |-> FALSE, framework |-> "PICO", population |-> "None", intervention |-> "None",
     comparator |-> "None", outcomes |-> <<>>]

Questions ==
    {NoQuestion} \cup
    [set : {TRUE}, framework : Frameworks, population : Populations,
     intervention : Interventions, comparator : Comparators,
     outcomes : SeqsUpTo(OutcomeTexts, MaxOutcomes)]

\* "not x" for an Optional[str]
Falsy(x) == x = "None" \/ x = ""

\* the list "missing" as run builds it
MissingOf(q) ==
    IF ~q.set THEN <<"population", "intervention", "comparator", "outcomes">>
    ELSE (IF Falsy(q.population) THEN <<"population">> ELSE <<>>)
           \o (IF Falsy(q.intervention) THEN <<"intervention">> ELSE <<>>)
           \o (IF q.comparator = "None" THEN <<"comparator">> ELSE <<>>)
           \o (IF q.outcomes = <<>> THEN <<"outcomes">> ELSE <<>>)

\* a severity that is high from two missing elements on
SeverityFromTwo(missing) == IF Len(missing) >= 2 THEN "high" ELSE "medium"

\* severity = "high" if len(missing) > 2 else "medium"
SeverityOf(missing) == IF Len(missing) > 2 THEN "high" ELSE "medium"

Issue(id, severity, missing) == [id |-> id, severity |-> severity, missing |-> missing]

\* _validate_outcome_quality
validate_outcome_quality(outcomes) ==
    LET timed == Cardinality({i \in DOMAIN outcomes : HasTimepoint(outcomes[i])})
    IN  (IF 2 * timed < Len(outcomes) THEN <<Issue("PICO-002", "low", <<>>)>> ELSE <<>>)
          \o (IF \E i \in DOMAIN outcomes : IsComposite(outcomes[i])
                THEN <<Issue("PICO-003", "medium", <<>>)>> ELSE <<>>)

\* _validate_population_specificity
validate_population_specificity(population) ==
    (IF ~AgeSpecified(population) THEN <<Issue("PICO-004", "low", <<>>)>> ELSE <<>>)
      \o (IF ~SeveritySpecified(population) THEN <<Issue("PICO-005", "low", <<>>)>> ELSE <<>>)

\* pico_parser.run(manuscript)
PicoParserRunOn(q) ==
    LET missing == MissingOf(q)
    IN  (IF missing # <<>> THEN <<Issue("PICO-001", SeverityOf(missing), missing)>> ELSE <<>>)
          \o (IF q.set /\ q.outcomes # <<>> THEN validate_outcome_quality(q.outcomes) ELSE <<>>)
          \o (IF q.set /\ ~Falsy(q.population)
                THEN validate_population_specificity(q.population) ELSE <<>>)
          \o (IF q.set /\ q.framework \notin {"PICO", "PECO"}
                THEN <<Issue("PICO-006", "low", <<>>)>> ELSE <<>>)

\* ---- the calls ----

NoMetaOut == [raised |-> FALSE, results |-> <<>>, forest |-> FALSE, funnel |-> FALSE,
              llm |-> "off"]

\* ---- EnhancedPICOParser (app/agents/pico_parser_enhanced.py) ----

\* the manuscript fields EnhancedPICOParser.run reads: title and search feed
\* _extract_available_text, question is read and may be assigned
EnhancedInputs ==
    [title : BOOLEAN, search : BOOLEAN,
     question : {q \in Questions : q.framework = "PICO" /\ Len(q.outcomes) <= 1}]

EnhancedConfigs == [use_llm : BOOLEAN, fallback_to_rules : BOOLEAN]

\* what the extraction request does: generate_completion_sync raises, or the
\* response is no JSON, lacks one of the four keys, or has them
LlmResponses == {"raise", "notjson", "missingkeys", "valid"}

\* the PICO built from a valid response
ExtractedQuestions ==
    {[set |-> TRUE, framework |-> "PICO", population |-> "adults with advanced CKD",
      intervention |-> "drug", comparator |-> "placebo", outcomes |-> <<"6-month mortality">>],
     [set |-> TRUE, framework |-> "PICO", population |-> "patients with CKD",
      intervention |-> "drug", comparator |-> "", outcomes |-> <<>>]}

\* _extract_available_text(manuscript) is not empty
AvailableText(m) == m.title \/ m.question.set \/ m.search

\* an extraction that stores its PICO over an existing question
StoresAlways(q) == TRUE

\* "if not manuscript.question": the LLM result is stored
Stores(q) == ~q.set

\* _validate_existing_pico(pico); lowq: the LLM quality assessment, when it is
\* asked and answers, scores the framework under 70
validate_existing_pico(pico, cfg, lowq) ==
    LET missing == (IF Falsy(pico.population) THEN <<"population">> ELSE <<>>)
                     \o (IF Falsy(pico.intervention) THEN <<"intervention">> ELSE <<>>)
                     \o (IF Falsy(pico.comparator) THEN <<"comparator">> ELSE <<>>)
                     \o (IF pico.outcomes = <<>> THEN <<"outcomes">> ELSE <<>>)
    IN  (IF missing # <<>>
           THEN <<Issue("PICO-COMPLETE-001", IF Len(missing) > 2 THEN "high" ELSE "medium", missing)>>
           ELSE <<>>)
          \o (IF pico.outcomes # <<>> THEN validate_outcome_quality(pico.outcomes) ELSE <<>>)
          \o (IF ~Falsy(pico.population)
                THEN validate_population_specificity(pico.population) ELSE <<>>)
          \o (IF cfg.use_llm /\ lowq THEN <<Issue("PICO-QUALITY-001", "medium", <<>>)>> ELSE <<>>)

\* _fallback_rule_based_analysis(manuscript) when fallback_to_rules is set
FallbackIssues(m, cfg) == IF cfg.fallback_to_rules THEN PicoParserRunOn(m.question) ELSE <<>>

\* EnhancedPICOParser(use_llm, fallback_to_rules).run(manuscript): the issues
\* returned and the manuscript afterwards
EnhancedPicoRunOn(m, cfg, resp, x, lowq) ==
    LET existing == IF m.question.set THEN validate_existing_pico(m.question, cfg, lowq) ELSE <<>>
        attempt == ~m.question.set \/ cfg.use_llm
        asks == attempt /\ AvailableText(m) /\ cfg.use_llm
    IN  IF asks /\ resp = "valid"
          THEN [issues |-> existing \o validate_existing_pico(x, cfg, lowq)
                             \o <<Issue("PICO-LLM-001", "low", <<>>)>>,
                manuscript |-> IF Stores(m.question) THEN [m EXCEPT !.question = x] ELSE m,
                asked |-> TRUE]
        ELSE IF asks /\ resp = "raise"
          THEN [issues |-> existing \o FallbackIssues(m, cfg)
                             \o <<Issue("PICO-LLM-ERROR-001", "low", <<>>)>>,
                manuscript |-> m, asked |-> TRUE]
        ELSE IF asks
          THEN [issues |-> existing, manuscript |-> m, asked |-> TRUE]
        ELSE IF attempt
          THEN [issues |-> existing \o FallbackIssues(m, cfg), manuscript |-> m, asked |-> FALSE]
        ELSE [issues |-> existing, manuscript |-> m, asked |-> FALSE]

NoEnhancedInput == [title |-> FALSE, search |-> FALSE, question |-> NoQuestion]
NoEnhancedConfig == [use_llm |-> FALSE, fallback_to_rules |-> FALSE]
NoEnhancedOut == [issues |-> <<>>, before |-> NoEnhancedInput, resp |-> "none", asked |-> FALSE]

\* ---- TextExtractor.extract_pico_elements (app/utils/pdf_ingest.py) ----

PicoFields == {"population", "intervention", "comparator", "outcomes"}

\* a text, by what the extraction finds in it: the fields whose pattern
\* matches, whether a spaCy model is loaded, and whether one of its entities
\* names patients, adults, children or participants
Texts == [matched : SUBSET PicoFields, nlp : BOOLEAN, candidate : BOOLEAN]

\* pico_data after the pattern loop and _enhance_pico_with_nlp: the set of
\* populated fields ('framework' is always 'PICO', so any(pico_data.values()))
Populated(t) ==
    t.matched \cup (IF t.nlp /\ t.candidate THEN {"population"} ELSE {})

\* sum(1 for v in pico_data.values() if v): the populated fields and 'framework'
TruthyValues(t) == Cardinality(Populated(t)) + 1

\* extract_pico_elements(text)
extract_pico_elements(t) ==
    IF TruthyValues(t) >= 2 THEN [returned |-> TRUE, fields |-> Populated(t)]
    ELSE [returned |-> FALSE, fields |-> {}]

NoText == [matched |-> {}, nlp |-> FALSE, candidate |-> FALSE]
NoExtraction == [returned |-> FALSE, fields |-> {}]

AgentsIdle ==
    /\ apc = "off" /\ included_studies = <<>> /\ question = NoQuestion
    /\ meta_out = NoMetaOut /\ pico_issues = <<>>
    /\ emanuscript = NoEnhancedInput /\ ecfg = NoEnhancedConfig /\ eout = NoEnhancedOut
    /\ xtext = NoText /\ xout = NoExtraction

InitAgents ==
    /\ apc \in {"meta", "pico", "epico", "xpico"}
    /\ xtext \in (IF apc = "xpico" THEN Texts ELSE {NoText})
    /\ xout = NoExtraction
    /\ included_studies \in (IF apc = "meta" THEN IncludedStudies ELSE {<<>>})
    /\ question \in (IF apc = "pico" THEN Questions ELSE {NoQuestion})
    /\ meta_out = NoMetaOut /\ pico_issues = <<>>
    /\ emanuscript \in (IF apc = "epico" THEN EnhancedInputs ELSE {NoEnhancedInput})
    /\ ecfg \in (IF apc = "epico" THEN EnhancedConfigs ELSE {NoEnhancedConfig})
    /\ eout = NoEnhancedOut

\* EnhancedMetaAnalysis(...).run(manuscript): the plots are written or not
\* (no plotting library, an exception inside the plot function), the LLM is
\* off, answers or raises
MetaAnalysisCall ==
    /\ apc = "meta"
    /\ \E forest \in BOOLEAN, funnel \in BOOLEAN, llm \in {"off", "ok", "raise"} :
         LET r == MetaAnalysisRunOn(included_studies, forest, funnel, llm)
         IN  meta_out' = [raised |-> r.raised, results |-> r.results, forest |-> forest,
                          funnel |-> funnel, llm |-> llm]
    /\ apc' = "meta_done"
    /\ UNCHANGED <<included_studies, question, pico_issues, emanuscript, ecfg, eout, xtext, xout>>
    /\ UNCHANGED <<reviewVars, logVars, streamVars, uploadVars, svcVars>>

\* pico_parser.run(manuscript)
PicoParserCall ==
    /\ apc = "pico"
    /\ pico_issues' = PicoParserRunOn(question)
    /\ apc' = "pico_done"
    /\ UNCHANGED <<included_studies, question, meta_out, emanuscript, ecfg, eout, xtext, xout>>
    /\ UNCHANGED <<reviewVars, logVars, streamVars, uploadVars, svcVars>>

\* EnhancedPICOParser(use_llm, fallback_to_rules).run(manuscript)
EnhancedPicoCall ==
    /\ apc = "epico"
    /\ \E resp \in LlmResponses, x \in ExtractedQuestions, lowq \in BOOLEAN :
         LET r == EnhancedPicoRunOn(emanuscript, ecfg, resp, x, lowq)
         IN  /\ eout' = [issues |-> r.issues, before |-> emanuscript, resp |-> resp,
                         asked |-> r.asked]
             /\ emanuscript' = r.manuscript
    /\ apc' = "epico_done"
    /\ UNCHANGED <<included_studies, question, meta_out, pico_issues, ecfg, xtext, xout>>
    /\ UNCHANGED <<reviewVars, logVars, streamVars, uploadVars, svcVars>>

\* TextExtractor().extract_pico_elements(text)
ExtractPicoCall ==
    /\ apc = "xpico"
    /\ xout' = extract_pico_elements(xtext)
    /\ apc' = "xpico_done"
    /\ UNCHANGED <<included_studies, question, meta_out, pico_issues, emanuscript, ecfg, eout, xtext>>
    /\ UNCHANGED <<reviewVars, logVars, streamVars, uploadVars, svcVars>>

-----------------------------------------------------------------------------
(***************************************************************************)
(* SERVICES: the lazily created module globals _default_client             *)
(* (app/services/llm_client.py), _env (app/services/llm_config.py) and     *)
(* _multi_agent_graph (app/langraph_orchestrator.py).  Sync endpoints run  *)
(* on worker threads, so the accessors are entered concurrently.           *)
(***************************************************************************)
MaxCallers == 2

Callers == 1..MaxCallers

Singletons == {"client", "env", "graph"}

\* "if _default_client is None"
IsNone(v) == v = 0

SingletonsIdle ==
    /\ gpc = [g \in Singletons |-> [t \in Callers |-> "off"]]
    /\ instance = [g \in Singletons |-> 0]
    /\ built = [g \in Singletons |-> 0]
    /\ fresh = [g \in Singletons |-> [t \in Callers |-> 0]]
    /\ obtained = [g \in Singletons |-> [t \in Callers |-> 0]]

\* a fresh process: no global is set, every thread is about to call
InitSingletons ==
    /\ gpc = [g \in Singletons |-> [t \in Callers |-> "call"]]
    /\ instance = [g \in Singletons |-> 0]
    /\ built = [g \in Singletons |-> 0]
    /\ fresh = [g \in Singletons |-> [t \in Callers |-> 0]]
    /\ obtained = [g \in Singletons |-> [t \in Callers |-> 0]]

\* "if _x is None:" evaluated by thread t
GetTest(g, t) ==
    /\ gpc[g][t] = "call"
    /\ gpc' = [gpc EXCEPT ![g][t] = IF IsNone(instance[g]) THEN "build" ELSE "return"]
    /\ UNCHANGED <<instance, built, fresh, obtained>>
    /\ UNCHANGED <<reviewVars, logVars, streamVars, uploadVars, agentVars, syncVars, configVars>>

\* the right-hand side of the assignment: the constructor runs (and may raise,
\* which ends the call with the global untouched)
GetBuild(g, t) ==
    /\ gpc[g][t] = "build"
    /\ \E ok \in BOOLEAN :
         IF ok
           THEN /\ built' = [built EXCEPT ![g] = @ + 1]
                /\ fresh' = [fresh EXCEPT ![g][t] = built[g] + 1]
                /\ gpc' = [gpc EXCEPT ![g][t] = "assign"]
           ELSE /\ gpc' = [gpc EXCEPT ![g][t] = "raised"]
                /\ UNCHANGED <<built, fresh>>
    /\ UNCHANGED <<instance, obtained>>
    /\ UNCHANGED <<reviewVars, logVars, streamVars, uploadVars, agentVars, syncVars, configVars>>

\* "_x = <the new instance>"
GetAssign(g, t) ==
    /\ gpc[g][t] = "assign"
    /\ instance' = [instance EXCEPT ![g] = fresh[g][t]]
    /\ gpc' = [gpc EXCEPT ![g][t] = "return"]
    /\ UNCHANGED <<built, fresh, obtained>>
    /\ UNCHANGED <<reviewVars, logVars, streamVars, uploadVars, agentVars, syncVars, configVars>>

\* "return _x": the global is read again
GetReturn(g, t) ==
    /\ gpc[g][t] = "return"
    /\ obtained' = [obtained EXCEPT ![g][t] = instance[g]]
    /\ gpc' = [gpc EXCEPT ![g][t] = "done"]
    /\ UNCHANGED <<instance, built, fresh>>
    /\ UNCHANGED <<reviewVars, logVars, streamVars, uploadVars, agentVars, syncVars, configVars>>

(***************************************************************************)
(* SERVICES: LLMClient.generate_completion_sync                            *)
(* (app/services/llm_client.py).  With a loop running on the calling       *)
(* thread the coroutine is run by a one-worker ThreadPoolExecutor used as  *)
(* a context manager; leaving the with block calls shutdown(wait=True).    *)
(***************************************************************************)
MaxClock == 62

timeout == 60

\* ThreadPoolExecutor.__exit__: shutdown(wait=True) joins the worker thread
ShutdownWaits(w) == w = "running"

SyncIdle ==
    /\ running_loop = FALSE /\ cpc = "off" /\ wpc = "none"
    /\ clock = 0 /\ pending = "none" /\ cout = "none"

InitSync ==
    /\ running_loop \in BOOLEAN /\ cpc = "call" /\ wpc = "none"
    /\ clock = 0 /\ pending = "none" /\ cout = "none"

\* asyncio.get_running_loop() succeeds: run_async is submitted to the executor
SyncSubmit ==
    /\ cpc = "call" /\ running_loop
    /\ cpc' = "waiting" /\ wpc' = "running"
    /\ UNCHANGED <<running_loop, clock, pending, cout>>
    /\ UNCHANGED <<reviewVars, logVars, streamVars, uploadVars, agentVars, singletonVars, configVars>>

\* asyncio.get_running_loop() raises RuntimeError: asyncio.run on the caller
SyncRunDirect ==
    /\ cpc = "call" /\ ~running_loop
    /\ \E r \in {"value", "error"} : cout' = r
    /\ cpc' = "returned"
    /\ UNCHANGED <<running_loop, wpc, clock, pending>>
    /\ UNCHANGED <<reviewVars, logVars, streamVars, uploadVars, agentVars, singletonVars, configVars>>

\* run_async ends on the worker: loop.run_until_complete returned or raised
WorkerFinish ==
    /\ wpc = "running"
    /\ \E r \in {"finished", "failed"} : wpc' = r
    /\ UNCHANGED <<running_loop, cpc, clock, pending, cout>>
    /\ UNCHANGED <<reviewVars, logVars, streamVars, uploadVars, agentVars, singletonVars, configVars>>

\* a second passes while the caller is blocked on the running worker;
\* future.result(timeout=60) does not block beyond its timeout
Tick ==
    /\ cpc \in {"waiting", "exiting"} /\ wpc = "running"
    /\ clock < (IF cpc = "waiting" THEN timeout ELSE MaxClock)
    /\ clock' = clock + 1
    /\ UNCHANGED <<running_loop, cpc, wpc, pending, cout>>
    /\ UNCHANGED <<reviewVars, logVars, streamVars, uploadVars, agentVars, singletonVars, configVars>>

\* future.result returns the value or re-raises the worker's exception
FutureResult ==
    /\ cpc = "waiting" /\ wpc # "running"
    /\ pending' = (IF wpc = "finished" THEN "value" ELSE "error")
    /\ cpc' = "exiting"
    /\ UNCHANGED <<running_loop, wpc, clock, cout>>
    /\ UNCHANGED <<reviewVars, logVars, streamVars, uploadVars, agentVars, singletonVars, configVars>>

\* future.result raises TimeoutError after 60 seconds
FutureTimeout ==
    /\ cpc = "waiting" /\ wpc = "running" /\ clock = timeout
    /\ pending' = "timeout"
    /\ cpc' = "exiting"
    /\ UNCHANGED <<running_loop, wpc, clock, cout>>
    /\ UNCHANGED <<reviewVars, logVars, streamVars, uploadVars, agentVars, singletonVars, configVars>>

\* the with block is left: the value or the exception reaches the caller
ExecutorExit ==
    /\ cpc = "exiting" /\ ~ShutdownWaits(wpc)
    /\ cout' = pending
    /\ cpc' = "returned"
    /\ UNCHANGED <<running_loop, wpc, clock, pending>>
    /\ UNCHANGED <<reviewVars, logVars, streamVars, uploadVars, agentVars, singletonVars, configVars>>

(***************************************************************************)
(* SERVICES: LLMEnvironment.__init__ and _load_config                      *)
(* (app/services/llm_config.py).  Three of the seven recognised settings   *)
(* are modelled, one of each conversion: default_model (string),           *)
(* max_retries (int) and enable_caching (bool).                            *)
(***************************************************************************)
MaxEnvironments == 2

ModelValues == {"None", "gpt-4o", "claude-3.5"}
RetryValues == {"None", "5", "many"}
CachingValues == {"None", "true", "no"}

RawValues == [default_model : ModelValues, max_retries : RetryValues, enable_caching : CachingValues]

Unset == [default_model |-> "None", max_retries |-> "None", enable_caching |-> "None"]

\* LLMSettings(): the dataclass defaults
LLMSettings == [default_model |-> "gpt-4o-mini", max_retries |-> 3, enable_caching |-> TRUE]

\* int(value) raises ValueError
IntRaises(raw) == raw = "many"

\* int(value)
ParseInt(raw) == IF raw = "5" THEN 5 ELSE 0

\* value.lower() in ("true", "1", "yes")
ParseBool(raw) == raw = "true"

\* the for loop over env_mappings applied to the settings s
FromEnvironment(s, e) ==
    [default_model |-> IF e.default_model # "None" THEN e.default_model ELSE s.default_model,
     max_retries |-> IF e.max_retries # "None" THEN ParseInt(e.max_retries) ELSE s.max_retries,
     enable_caching |-> IF e.enable_caching # "None" THEN ParseBool(e.enable_caching)
                        ELSE s.enable_caching]

\* the loop over the lines of the config file: os.environ[key] = value
FileIntoEnviron(e, f) ==
    [k \in DOMAIN e |-> IF f.exists /\ f.lines[k] # "None" THEN f.lines[k] ELSE e[k]]

ConfigFiles ==
    {f \in [exists : BOOLEAN, lines : RawValues] : ~f.exists => f.lines = Unset}

ConfigIdle ==
    /\ lpc = "off" /\ environ = Unset /\ environ0 = Unset
    /\ cfile = [exists |-> FALSE, lines |-> Unset]
    /\ settings = LLMSettings /\ nenv = 0

\* LLMEnvironment(): self.settings = LLMSettings(), before _load_config
InitConfig ==
    /\ lpc = "load_env" /\ environ \in RawValues /\ environ0 = environ
    /\ cfile \in ConfigFiles
    /\ settings = LLMSettings /\ nenv = 1

\* _load_config, first half: the settings are taken from the environment
\* variables, or int() raises out of the constructor
LoadFromEnvironment ==
    /\ lpc = "load_env"
    /\ IF IntRaises(environ.max_retries)
         THEN lpc' = "raised" /\ UNCHANGED settings
         ELSE lpc' = "load_file" /\ settings' = FromEnvironment(settings, environ)
    /\ UNCHANGED <<environ, environ0, cfile, nenv>>
    /\ UNCHANGED <<reviewVars, logVars, streamVars, uploadVars, agentVars, singletonVars, syncVars>>

\* _load_config, second half: the key=value lines of the file go to os.environ
LoadFromFile ==
    /\ lpc = "load_file"
    /\ environ' = FileIntoEnviron(environ, cfile)
    /\ lpc' = "done"
    /\ UNCHANGED <<environ0, cfile, settings, nenv>>
    /\ UNCHANGED <<reviewVars, logVars, streamVars, uploadVars, agentVars, singletonVars, syncVars>>

\* another LLMEnvironment() is constructed later in the same process
ConstructAgain ==
    /\ lpc \in {"done", "raised"} /\ nenv < MaxEnvironments
    /\ lpc' = "load_env" /\ settings' = LLMSettings /\ environ0' = environ
    /\ nenv' = nenv + 1
    /\ UNCHANGED <<environ, cfile>>
    /\ UNCHANGED <<reviewVars, logVars, streamVars, uploadVars, agentVars, singletonVars, syncVars>>

ServicesIdle == SingletonsIdle /\ SyncIdle /\ ConfigIdle

-----------------------------------------------------------------------------
(* The specifications *)

\* one review call
NextReview == ReviewStep
StartReview == InitReview /\ LogIdle /\ StreamIdle /\ UploadIdle /\ AgentsIdle /\ ServicesIdle
SpecReview == StartReview /\ [][NextReview]_vars

\* the log broadcasting service with its clients and emitting threads
NextLog == (\E l \in Listeners : RegisterListener(l) \/ UnregisterListener(l)) \/ EmitStep
StartLog == ReviewIdle /\ LogIdle /\ StreamIdle /\ UploadIdle /\ AgentsIdle /\ ServicesIdle
SpecLog == StartLog /\ [][NextLog]_vars

\* an agent function applied to a manuscript
NextAgents == MetaAnalysisCall \/ PicoParserCall \/ EnhancedPicoCall \/ ExtractPicoCall
StartAgents == ReviewIdle /\ LogIdle /\ StreamIdle /\ UploadIdle /\ InitAgents /\ ServicesIdle
SpecAgents == StartAgents /\ [][NextAgents]_vars

\* the threads of a fresh process calling the accessors of the singletons
NextServices ==
    \E g \in Singletons, t \in Callers :
        GetTest(g, t) \/ GetBuild(g, t) \/ GetAssign(g, t) \/ GetReturn(g, t)
StartServices ==
    ReviewIdle /\ LogIdle /\ StreamIdle /\ UploadIdle /\ AgentsIdle /\ InitSingletons /\ SyncIdle /\ ConfigIdle
SpecServices == StartServices /\ [][NextServices]_vars

\* the constructions of LLMEnvironment in one process
NextConfig == LoadFromEnvironment \/ LoadFromFile \/ ConstructAgain
StartConfig ==
    ReviewIdle /\ LogIdle /\ StreamIdle /\ UploadIdle /\ AgentsIdle /\ SingletonsIdle /\ SyncIdle /\ InitConfig
SpecConfig == StartConfig /\ [][NextConfig]_vars

\* one call of generate_completion_sync
NextSync ==
    \/ SyncSubmit \/ SyncRunDirect \/ WorkerFinish \/ Tick
    \/ FutureResult \/ FutureTimeout \/ ExecutorExit
StartSync ==
    ReviewIdle /\ LogIdle /\ StreamIdle /\ UploadIdle /\ AgentsIdle /\ SingletonsIdle /\ InitSync /\ ConfigIdle
SpecSync == StartSync /\ [][NextSync]_vars

\* the SSE generators of both streaming endpoints, with emitting threads
InitStream ==
    /\ spc = [s \in Streams |-> "init"]
    /\ endpoint \in [Streams -> {"start", "upload"}]
    /\ seq = [s \in Streams |-> 0]
    /\ evn = [s \in Streams |-> 0]
    /\ held = [s \in Streams |-> 0]
    /\ out = [s \in Streams |-> <<>>]
    /\ how = [s \in Streams |-> "running"]
    /\ late = [s \in Streams |-> {}]
NextStream == GenStep \/ EmitStep
StartStream == ReviewIdle /\ LogIdle /\ InitStream /\ UploadIdle /\ AgentsIdle /\ ServicesIdle
SpecStream == StartStream /\ [][NextStream]_vars

\* one upload request, with the body of its streamed response
NextUpload == UploadStep \/ GenStep \/ EmitStep
StartUpload == ReviewIdle /\ LogIdle /\ StreamIdle /\ InitUpload /\ AgentsIdle /\ ServicesIdle
SpecUpload == StartUpload /\ [][NextUpload]_vars


-----------------------------------------------------------------------------
(***************************************************************************)
(* PROPERTIES                                                              *)
(***************************************************************************)

\* C1: in every SSE stream the sequence values of successive events increase
\* by exactly one: no value is repeated and none is skipped.
C1_SequenceContiguous ==
    \A s \in Streams :
        \A i \in 2..Len(out[s]) : out[s][i].sequence = out[s][i - 1].sequence + 1

\* the entries of a list of AnalysisMethods that carry the label of agent i
MethodsOf(methods, i) == {k \in DOMAIN methods : methods[k].agent = AgentLabel[i]}

\* the positions of the trace at which orchestrator o starts an agent
StartsOf(o) == {k \in DOMAIN trace : trace[k].ev = "start" /\ trace[k].orch = o}

\* C2: when run_multi_agent_review has run to completion, completed_agents
\* holds each of the four agent names exactly once and the returned
\* analysis_methods hold exactly one entry per agent.
C2_EveryAgentOnce ==
    /\ (entry = "graph" /\ (rpc = "convert" \/ result.via = "graph")) =>
          /\ Len(gstate.completed_agents) = 4
          /\ \A i \in 1..4 : Count(gstate.completed_agents, all_agents[i]) = 1
    /\ (entry = "graph" /\ rpc = "returned") =>
          /\ Len(result.analysis_methods) = 4
          /\ \A i \in 1..4 : Cardinality(MethodsOf(result.analysis_methods, i)) = 1

\* a graph run that reached END and was converted into the result
C2_Witness ==
    /\ entry = "graph" /\ rpc = "returned" /\ result.via = "graph"
    /\ Len(gstate.completed_agents) = 4 /\ Len(result.analysis_methods) = 4

\* C3: when every LLM client call raises, an agent whose LLM call raised
\* still returns, and the AnalysisMethod recorded for it is "rule-based" with
\* a populated fallback_reason.
C3_LlmFailureRecorded ==
    /\ \A k \in DOMAIN trace :
          (trace[k].ev = "raise") => <<trace[k].orch, trace[k].agent>> \notin llmFailed
    /\ (env.llmRaise /\ rpc = "returned") =>
          \A p \in llmFailed :
              p[1] = result.via =>
                  \A k \in MethodsOf(result.analysis_methods, p[2]) :
                      /\ result.analysis_methods[k].method = "rule-based"
                      /\ result.analysis_methods[k].fallback_reason # "None"

\* C4: run_multi_agent_review never propagates an exception: when the graph
\* raises, simple_review is called and its result is returned.
C4_NeverPropagates == entry = "graph" => rpc # "raised"

C6_ExactlyOnceInOrder ==
    /\ emitted # 0 =>
          \A l \in stable : ~lstate[l].raises => Count(queue[l], emitted) = 1
    /\ \A l \in Listeners : \A i, j \in DOMAIN queue[l] :
          i < j => queue[l][i] < queue[l][j]

\* two lines were broadcast to a raising listener and a queue listener, both
\* registered throughout, and the queue listener holds both lines
C6_Witness ==
    \E bad, good \in Listeners :
        /\ lstate[bad].raises /\ ~lstate[good].raises
        /\ emitted = 2
        /\ {bad, good} \subseteq stable
        /\ queue[good] = <<1, 2>>

\* C7: when a stream has ended, by success, by the client going away or by an
\* error, its listener is no longer in the registry.
C7_ListenerRemoved ==
    \A s \in Streams :
        /\ spc[s] = "done" => s \notin listeners
        /\ s \in listeners => spc[s] \in {"next", "drain", "log", "event", "fdrain", "flog",
                                           "error", "finally"}

\* a stream that had registered its listener and yielded a log line ended on
\* an error of the review
C7_Witness ==
    \E s \in Streams :
        /\ spc[s] = "done" /\ how[s] = "error" /\ lstate[s].phase = "unregistered"
        /\ \E i \in DOMAIN out[s] : out[s][i].type = "log"

\* C8: when an orchestration event that follows another one is yielded, no
\* log line captured before it is still waiting on the stream's queue.
C8_FlushedBeforeEvent == \A s \in Streams : late[s] = {}

\* C9 as stated: 400 for a bad file name, before a temporary file exists; 422
\* when the extraction yields no manuscript; 500 for any other exception
\* raised while the request is handled.
C9_StatusByFailure ==
    upc = "done" =>
        /\ InvalidFileType(ureq.filename) => (ustatus = 400 /\ tmp = "none")
        /\ ufail = "nomanuscript" => ustatus = 422
        /\ ufail \in {"copy", "extract", "review", "setattr", "stream"} => ustatus = 500

\* C9, amended: as above for every exception raised before the response has
\* started; an exception raised while the body of /review/upload/stream is
\* generated leaves the status 200 and ends the body with an error event.
C9_StatusBeforeStreaming ==
    upc = "done" =>
        /\ InvalidFileType(ureq.filename) => (ustatus = 400 /\ tmp = "none")
        /\ ufail = "nomanuscript" => ustatus = 422
        /\ ufail \in {"copy", "extract", "review", "setattr"} => ustatus = 500
        /\ ufail = "stream" =>
              /\ ureq.endpoint = "stream" /\ ustatus = 200
              /\ out[1][Len(out[1])].type = "error"

\* the review raised while the body of /review/upload/stream was generated
C9_Witness == upc = "done" /\ ufail = "stream" /\ ustatus = 200 /\ how[1] = "error"

\* C10: when the handler of an upload request has returned, a temporary file
\* it created no longer exists.
C10_TempFileRemoved == upc \in {"done", "streaming"} => tmp # "exists"


\* C11: an upload to /review/upload that is parsed and whose review completes
\* is answered 200 with a ReviewResult carrying extraction_info and the parsed
\* manuscript.
C11_UploadReturnsResult ==
    (upc = "done" /\ ureq.endpoint = "upload"
       /\ ufail \notin {"filetype", "copy", "nomanuscript", "extract", "review"})
    => (ustatus = 200 /\ uresp.kind = "result" /\ uresp.info.set /\ uresp.manuscript)

\* C12: for a parsed upload whose review completes, the extraction_info of the
\* response tells the studies and the presence of a question of the manuscript
\* as the ingestion produced it.
C12_ExtractionInfoOfIngestion ==
    (upc \in {"streaming", "done"} /\ ureq.endpoint \in {"upload", "stream"}
       /\ ufail \notin {"filetype", "copy", "nomanuscript", "extract", "review"})
    => uresp.info = ExtractionInfo(uman)

\* C13: a review requested through run_enhanced_multi_agent_review with
\* use_llm = FALSE returns no AnalysisMethod recorded as llm-enhanced.
C13_LlmSwitchedOff ==
    (entry = "graph" /\ ~use_llm /\ rpc = "returned")
    => \A i \in DOMAIN result.analysis_methods :
         result.analysis_methods[i].method # "llm-enhanced"

\* C14: a stream of /review/upload/stream that ran to its end starts with its
\* only extraction_complete event, goes on with orchestration and log events
\* only, and ends with its only manuscript event; when the orchestration
\* raised it ends with its only error event instead and has no manuscript event.
C14_UploadStreamShape ==
    \A s \in Streams :
        (endpoint[s] = "upload" /\ spc[s] = "done" /\ how[s] # "closed")
        => LET o == out[s]
               n == Len(o)
           IN  /\ n >= 2
               /\ o[1].type = "extraction_complete"
               /\ \A i \in 2..(n - 1) : o[i].type \in {"event", "log"}
               /\ how[s] \in {"ok", "error"}
               /\ o[n].type = (IF how[s] = "ok" THEN "manuscript" ELSE "error")

\* an orchestration that raised after an event and a log line were streamed
C14_Witness ==
    \E s \in Streams :
        /\ endpoint[s] = "upload" /\ spc[s] = "done" /\ how[s] = "error"
        /\ \E i, j \in DOMAIN out[s] : out[s][i].type = "event" /\ out[s][j].type = "log"

\* the studies that report at least one effect under the outcome name
ContributingStudies(name) ==
    {i \in DOMAIN included_studies :
        \E j \in DOMAIN included_studies[i] : included_studies[i][j].name = name}

\* C15: the meta-analysis run returns no MetaResult for an outcome with exactly
\* one contributing study, returns results only for outcomes some study
\* reports, and returns the empty list for a manuscript without studies.
C15_MinimumStudyRule ==
    apc = "meta_done"
    => /\ \A name \in OutcomeNames :
             Cardinality(ContributingStudies(name)) = 1
             => \A i \in DOMAIN meta_out.results : meta_out.results[i].outcome # name
       /\ \A i \in DOMAIN meta_out.results :
             ContributingStudies(meta_out.results[i].outcome) # {}
       /\ included_studies = <<>> => meta_out.results = <<>>

\* the effects reported under the outcome name, over all studies
EffectsNamed(name) ==
    {ij \in (DOMAIN included_studies) \X (1..MaxEffects) :
        /\ ij[2] \in DOMAIN included_studies[ij[1]]
        /\ included_studies[ij[1]][ij[2]].name = name}

\* the outcome names with at least two effects
PooledOutcomes == {name \in OutcomeNames : Cardinality(EffectsNamed(name)) >= 2}

\* the result list holds, for each pooled outcome, one fixed and one random
\* MetaResult with the number of its effects as k, and nothing else
TwoResultsPerOutcome ==
    LET res == meta_out.results
    IN  /\ Len(res) = 2 * Cardinality(PooledOutcomes)
        /\ \A name \in PooledOutcomes : \A model \in {"fixed", "random"} :
              Cardinality({i \in DOMAIN res :
                  /\ res[i].outcome = name /\ res[i].model = model
                  /\ res[i].k = Cardinality(EffectsNamed(name))}) = 1

Elements == <<"population", "intervention", "comparator", "outcomes">>

\* an element is missing when there is no question, when the population or
\* the intervention is absent or empty, when the comparator is unset (an empty
\* comparator states that there is none), when no outcome is listed
ElementMissing(q, e) ==
    \/ ~q.set
    \/ e = "population" /\ q.population \in {"None", ""}
    \/ e = "intervention" /\ q.intervention \in {"None", ""}
    \/ e = "comparator" /\ q.comparator = "None"
    \/ e = "outcomes" /\ Len(q.outcomes) = 0

ElementIndex(e) == CHOOSE i \in DOMAIN Elements : Elements[i] = e

\* C17: the rule-based PICO parser returns exactly one PICO-001 issue when an
\* element is missing and none otherwise; the issue lists the missing elements
\* in the order population, intervention, comparator, outcomes, is high with
\* more than two of them and medium otherwise; without a question it is the
\* only issue and lists all four.
C17_Pico001 ==
    apc = "pico_done"
    => LET p001 == {i \in DOMAIN pico_issues : pico_issues[i].id = "PICO-001"}
           miss == {e \in Range(Elements) : ElementMissing(question, e)}
       IN  /\ Cardinality(p001) = (IF miss = {} THEN 0 ELSE 1)
           /\ \A i \in p001 :
                 LET m == pico_issues[i].missing
                 IN  /\ Range(m) = miss
                     /\ \A a, b \in DOMAIN m : a < b => ElementIndex(m[a]) < ElementIndex(m[b])
                     /\ pico_issues[i].severity =
                           (IF Cardinality(miss) > 2 THEN "high" ELSE "medium")
           /\ ~question.set
                => pico_issues = <<[id |-> "PICO-001", severity |-> "high", missing |-> Elements]>>

\* a question with an empty comparator and exactly two missing elements
C17_Witness ==
    /\ apc = "pico_done" /\ question.set /\ question.comparator = ""
    /\ \E i \in DOMAIN pico_issues :
          /\ pico_issues[i].id = "PICO-001" /\ pico_issues[i].severity = "medium"
          /\ Len(pico_issues[i].missing) = 2

\* C18: a file named *.docx whose content cannot be opened as a Word document,
\* uploaded to /review/upload, is answered 500.
C18_CorruptDocx500 ==
    (upc = "done" /\ ureq.endpoint = "upload" /\ ~ureq.opens
       /\ EndsWith(Lower(ureq.filename), DotDocx) /\ ufail # "copy")
    => ustatus = 500

\* C19: every run of the graph reaches END: no node raises out of the graph,
\* the step limit is never reached, and the graph is left only with all four
\* agents completed.
C19_GraphReachesEnd ==
    entry = "graph"
    => /\ steps < recursion_limit
       /\ \A k \in DOMAIN trace : trace[k].orch = "graph" => trace[k].ev # "raise"
       /\ rpc \in {"convert", "fallback", "s_agent", "s_run", "returned", "raised"}
            => Range(gstate.completed_agents) = Range(all_agents)

\* C20: within one call of run_multi_agent_review no agent is started twice,
\* the fallback to simple_review included.
C20_AgentRunAtMostOnce ==
    entry = "graph"
    => \A i \in 1..4 :
         Cardinality({k \in DOMAIN trace : trace[k].ev = "start" /\ trace[k].agent = i}) <= 1

\* C21: once unregister_listener(cb) has returned, no line is put on the queue
\* of that listener any more, whatever a concurrent emit is doing.
C21_NoPutAfterUnregister ==
    [][\A l \in Listeners : lstate[l].phase = "unregistered" => queue'[l] = queue[l]]_vars

\* C22: each singleton is constructed at most once, and the callers of its
\* accessor all obtain the same instance, concurrent first calls included.
C22_SingletonOnce ==
    \A g \in Singletons :
        /\ built[g] <= 1
        /\ \A t, u \in Callers :
              (gpc[g][t] = "done" /\ gpc[g][u] = "done") => obtained[g][t] = obtained[g][u]

\* C23: with a loop running on the calling thread the completion runs on a
\* worker thread, and the caller is blocked for at most the 60 seconds of the
\* timeout, whether or not the worker has finished.
C23_CallerWaitsAtMostTimeout ==
    /\ (cpc \in {"waiting", "exiting"} => running_loop /\ wpc # "none")
    /\ (cpc \in {"waiting", "exiting"} => clock <= timeout)

\* the entries of analysis_methods name the four agents once each, in order
OnePerAgentInOrder(methods) ==
    /\ Len(methods) = Len(AgentLabel)
    /\ \A i \in DOMAIN methods : methods[i].agent = AgentLabel[i]

\* an entry of an LLM-capable agent that fell back to rules says why
DegradedSaysWhy(methods) ==
    \A i \in DOMAIN methods :
        (methods[i].agent \in {"PICO-Parser", "Risk-of-Bias"} /\ methods[i].method = "rule-based")
            => methods[i].fallback_reason # "None"

\* C24: the result of simple_review and of enhanced_review carries exactly one
\* AnalysisMethod per agent, in the order PICO-Parser, PRISMA-Checker,
\* Risk-of-Bias, Meta-Analysis, also when the LLM agents are not importable or
\* an enhanced agent raises, and a degraded entry carries a fallback_reason.
C24_OneMethodPerAgent ==
    (rpc = "returned" /\ result.via \in {"simple", "enhanced"})
        => OnePerAgentInOrder(result.analysis_methods) /\ DegradedSaysWhy(result.analysis_methods)

\* the agents whose AnalysisMethod can be llm-enhanced in enhanced_review
LlmCapable == {"PICO-Parser", "Risk-of-Bias"}

\* C25: a review returned by enhanced_review with use_llm = FALSE was made
\* without any agent invoking the LLM client, and its PICO-Parser and
\* Risk-of-Bias entries are rule-based with "LLM disabled by parameter".
C25_DisabledByParameter ==
    (entry = "enhanced" /\ ~use_llm /\ rpc = "returned")
        => /\ \A i \in 1..4 : <<"enhanced", i>> \notin llmCalled
           /\ \A k \in DOMAIN result.analysis_methods :
                 result.analysis_methods[k].agent \in LlmCapable
                     => /\ result.analysis_methods[k].method = "rule-based"
                        /\ result.analysis_methods[k].fallback_reason = "LLM disabled by parameter"

\* the ids of a list of issues
IdsOf(issues) == {issues[i].id : i \in DOMAIN issues}

\* C26: a run of EnhancedPICOParser with the LLM enabled whose extraction
\* request raised, or was answered by something that is not JSON with the four
\* keys, returns a low-severity PICO-LLM-ERROR-001 issue and, with
\* fallback_to_rules, the issues of the rule-based parser as well.
C26_ErrorIssueOnFailedExtraction ==
    (apc = "epico_done" /\ ecfg.use_llm /\ eout.asked
        /\ eout.resp \in {"raise", "notjson", "missingkeys"})
        => /\ \E i \in DOMAIN eout.issues :
                 eout.issues[i].id = "PICO-LLM-ERROR-001" /\ eout.issues[i].severity = "low"
           /\ ecfg.fallback_to_rules
                 => Range(PicoParserRunOn(eout.before.question)) \subseteq Range(eout.issues)

\* C27: EnhancedPICOParser.run assigns manuscript.question only when there was
\* none and the LLM extraction produced a PICO; an existing question is the
\* same afterwards on every path, and title and search are never changed.
C27_QuestionAssignedOnlyWhenAbsent ==
    apc = "epico_done"
        => /\ emanuscript.question # eout.before.question
                 => (~eout.before.question.set /\ eout.asked /\ eout.resp = "valid"
                       /\ emanuscript.question \in ExtractedQuestions)
           /\ eout.before.question.set => emanuscript.question = eout.before.question
           /\ emanuscript.title = eout.before.title
           /\ emanuscript.search = eout.before.search

\* a run that assigned the extracted PICO to a manuscript without question
C27_Witness ==
    apc = "epico_done" /\ ~eout.before.question.set /\ emanuscript.question.set

\* C28: when the LLM call of EnhancedPRISMAChecker.run raised, the issues the
\* checker contributed to the review are its rule-based issues directly
\* followed by a PRISMA-LLM-ERROR-001 issue.
C28_PrismaErrorIssue ==
    (rpc = "returned" /\ <<result.via, 2>> \in llmFailed)
        => \E i \in DOMAIN result.issues :
             /\ result.issues[i] = "PRISMA-RULES"
             /\ i + 1 \in DOMAIN result.issues
             /\ result.issues[i + 1] = "PRISMA-LLM-ERROR-001"


\* the raw value that decides a setting: the file's when the file sets the
\* key, otherwise the environment variable's ("None": the default applies)
Deciding(k) ==
    IF cfile.exists /\ cfile.lines[k] # "None" THEN cfile.lines[k] ELSE environ0[k]

\* C29: a constructed LLMEnvironment has each setting at the value of the
\* config file when the file sets its key, otherwise at the value of the
\* environment variable, otherwise at the default.
C29_FileThenEnvironmentThenDefault ==
    (lpc = "done" /\ ~IntRaises(Deciding("max_retries")))
        => /\ settings.default_model =
                 (IF Deciding("default_model") # "None" THEN Deciding("default_model")
                  ELSE LLMSettings.default_model)
           /\ settings.max_retries =
                 (IF Deciding("max_retries") # "None" THEN ParseInt(Deciding("max_retries"))
                  ELSE LLMSettings.max_retries)
           /\ settings.enable_caching =
                 (IF Deciding("enable_caching") # "None" THEN ParseBool(Deciding("enable_caching"))
                  ELSE LLMSettings.enable_caching)

\* C30: extract_pico_elements returns a PICO record only when at least two
\* of population, intervention, comparator and outcomes were populated from
\* the text, and returns none when fewer than two were.
C30_PicoNeedsTwoFields ==
    apc = "xpico_done"
        => /\ xout.returned => Cardinality(Populated(xtext)) >= 2
           /\ Cardinality(Populated(xtext)) < 2 => ~xout.returned

=============================================================================
